---- MODULE Spec2Model ----
(***************************************************************************)
(* nuan-utils: the decimal-safe arithmetic helpers (addition, subtraction, *)
(* multiplication, divisionOperation) and the currency numeral formatter   *)
(* (priceUppercase), as state machines: Init draws the arguments of one    *)
(* call, one action per exported function applies it.                      *)
(*                                                                         *)
(* Numbers.  A decimal operand is the record [m, p] standing for the       *)
(* double nearest to m / 10^p (m an integer, p the number of fractional    *)
(* digits, m not a multiple of 10 unless p = 0).  Within the bounds used   *)
(* here (at most 9 significant digits) that double prints, by the          *)
(* shortest-round-trip rule of Number.prototype.toString, as exactly this  *)
(* decimal, and a correctly rounded quotient of two integers below 2^53 is *)
(* the double nearest to the exact quotient; so sums, products and         *)
(* quotients of integers are carried exactly.  What a double does NOT      *)
(* carry exactly is a product num * 10^q whose exact value is a            *)
(* half-integer: the double may sit on the tie or one ulp to either side.  *)
(* That outcome is the input "mu" of every call: -1, 0 or 1, the sign of   *)
(* (|computed product| - |exact product|).  Signed zero is not modelled    *)
(* (-0 and 0 are === in the source's comparisons).                         *)
(***************************************************************************)
EXTENDS Integers, Sequences, FiniteSets, Bags, TLC

VARIABLES pc, fn, num1, num2, decimal, mu, val, format, build, out,
          numArg, value, segments, point, origin,
          userAgent, navigator, amount, options, tie, total, numParts,
          divideOptions, splits, divided, diff, turn, document,
          eventHandlers, listeners, created, eventList, nth, window,
          localStorage, itemKey, itemValue

vars == <<pc, fn, num1, num2, decimal, mu, val, format, build, out,
          numArg, value, segments, point, origin,
          userAgent, navigator, amount, options, tie, total, numParts,
          divideOptions, splits, divided, diff, turn, document,
          eventHandlers, listeners, created, eventList, nth, window,
          localStorage, itemKey, itemValue>>

\* The variables of numberToChinese (its argument num and its locals value
\* and segments) and of the coordinate functions (the point [lng, lat] and, once a
\* result was passed on, the call it came from: origin), and
\* their values in the calls of the other functions.
chineseVars == <<numArg, value, segments>>

coordVars == <<point, origin>>

NoChinese == numArg = <<>> /\ value = <<>> /\ segments = <<>>

NoCoord == point = <<>> /\ origin = <<>>

\* The variables of the functions modelled further down, group by group, and
\* their values in the calls of the functions above.
deviceVars == <<userAgent, navigator>>

thousandsVars == <<amount, options, tie>>

divideVars == <<total, numParts, divideOptions, splits, divided, diff, turn>>

mouseVars == <<document, eventHandlers, listeners, created, eventList, nth>>

storageVars == <<window, localStorage, itemKey, itemValue>>

NoDevice == userAgent = <<>> /\ navigator = <<>>

NoThousands == amount = <<>> /\ options = <<>> /\ tie = <<>>

NoDivide == total = <<>> /\ numParts = <<>> /\ divideOptions = <<>> /\ splits = <<>> /\ divided = <<>> /\ diff = <<>> /\ turn = <<>>

NoMouse == document = <<>> /\ eventHandlers = <<>> /\ listeners = <<>> /\ created = <<>> /\ eventList = <<>> /\ nth = <<>>

NoStorage == window = <<>> /\ localStorage = <<>> /\ itemKey = <<>> /\ itemValue = <<>>

laterVars == <<deviceVars, thousandsVars, divideVars, mouseVars, storageVars>>

NoLater == NoDevice /\ NoThousands /\ NoDivide /\ NoMouse /\ NoStorage

\* ------------------------------------------------------------------ bounds
MaxMant == 5
MaxPlaces == 7
MaxDecimal == 1
DivLimit == 100000

\* ------------------------------------------------------------ arithmetic
Abs(x) == IF x < 0 THEN -x ELSE x

Sign(x) == IF x < 0 THEN -1 ELSE IF x > 0 THEN 1 ELSE 0

Max(x, y) == IF x >= y THEN x ELSE y

RECURSIVE Pow10(_)
Pow10(k) == IF k <= 0 THEN 1 ELSE 10 * Pow10(k - 1)

RECURSIVE Gcd(_, _)
Gcd(x, y) == IF y = 0 THEN x ELSE Gcd(y, x % y)

\* The decimal m / 10^p in lowest terms of 10.
RECURSIVE Norm(_, _)
Norm(m, p) ==
  IF p > 0 /\ m % 10 = 0 THEN Norm(m \div 10, p - 1) ELSE [m |-> m, p |-> p]

Neg(x) == [m |-> -x.m, p |-> x.p]

\* The decimal digits of a natural number, most significant first.
RECURSIVE Digits(_)
Digits(n) == IF n < 10 THEN <<n>> ELSE Append(Digits(n \div 10), n % 10)

DigitChar(d) == <<"0", "1", "2", "3", "4", "5", "6", "7", "8", "9">>[d + 1]

DigitChars(ds) == [i \in 1..Len(ds) |-> DigitChar(ds[i])]

Zeros(k) == [i \in 1..k |-> "0"]

\* Drops the trailing zeros of a digit sequence.
RECURSIVE StripZeros(_)
StripZeros(ds) ==
  IF Len(ds) > 0 /\ ds[Len(ds)] = 0 THEN StripZeros(SubSeq(ds, 1, Len(ds) - 1))
  ELSE ds

\* A finite double in the terms of Number::toString: its k significant
\* digits ds (the shortest that round-trip; no leading or trailing zero) and
\* the position n of the decimal point, the value being 0.d1...dk * 10^n.
\* Zero has no digits.
SciOf(neg, all, p) ==
  [kind |-> "finite", neg |-> neg, ds |-> StripZeros(all), n |-> Len(all) - p]

Sci(x) ==
  IF x.m = 0 THEN [kind |-> "finite", neg |-> FALSE, ds |-> <<>>, n |-> 0]
  ELSE SciOf(x.m < 0, Digits(Abs(x.m)), x.p)

\* The exponent part of exponential notation: e, the sign, the digits.
ExponentChars(e) ==
  <<"e", IF e < 0 THEN "-" ELSE "+">> \o DigitChars(Digits(Abs(e)))

\* Number::toString for k = Len(ds) digits and the point after digit n: the
\* digits and n - k zeros when k <= n <= 21, a point inside the digits when
\* 0 < n <= 21, "0.000ddd" when -6 < n <= 0, and exponential notation
\* "d.ddde-N" / "d.ddde+N" otherwise.
NumberChars(ds, k, n) ==
  IF k = 0 THEN <<"0">>
  ELSE IF k <= n /\ n <= 21 THEN ds \o Zeros(n - k)
  ELSE IF 0 < n /\ n <= 21
       THEN SubSeq(ds, 1, n) \o <<".">> \o SubSeq(ds, n + 1, k)
  ELSE IF -6 < n /\ n <= 0 THEN <<"0", ".">> \o Zeros(-n) \o ds
  ELSE <<ds[1]>> \o (IF k > 1 THEN <<".">> \o SubSeq(ds, 2, k) ELSE <<>>)
       \o ExponentChars(n - 1)

\* Number.prototype.toString (radix 10), as a sequence of characters: NaN,
\* the sign, then Infinity or the digits of a finite number.
NumberToString(s) ==
  IF s.kind = "NaN" THEN <<"N", "a", "N">>
  ELSE (IF s.neg THEN <<"-">> ELSE <<>>)
       \o (IF s.kind = "Infinity" THEN <<"I", "n", "f", "i", "n", "i", "t", "y">>
           ELSE NumberChars(DigitChars(s.ds), Len(s.ds), s.n))

\* str.indexOf(c): the 1-based position of the first c, 0 when there is none.
RECURSIVE IndexFrom(_, _, _)
IndexFrom(str, c, i) ==
  IF i > Len(str) THEN 0 ELSE IF str[i] = c THEN i ELSE IndexFrom(str, c, i + 1)

IndexOf(str, c) == IndexFrom(str, c, 1)

\* str.split('.'): the pieces between the dots.
RECURSIVE SplitAt(_, _)
SplitAt(str, i) ==
  IF i = 0 THEN <<str>>
  ELSE <<SubSeq(str, 1, i - 1)>>
       \o SplitAt(SubSeq(str, i + 1, Len(str)),
                  IndexFrom(str, ".", i + 1) - (IF IndexFrom(str, ".", i + 1) = 0 THEN 0 ELSE i))

SplitDot(str) == SplitAt(str, IndexOf(str, "."))

\* str.indexOf('.') === -1 ? 0 : str.split('.')[1].length
PlacesOfString(str) ==
  IF IndexOf(str, ".") = 0 THEN 0 ELSE Len(SplitDot(str)[2])

\* The helper of the arithmetic functions: the characters after the '.' of
\* the operand's string, exponent characters included.
getDecimalPlaces(num) == PlacesOfString(NumberToString(Sci(num)))

\* num * Math.pow(10, q) as the exact value n / 10^k.
Times10(num, q) ==
  IF q >= num.p THEN [n |-> num.m * Pow10(q - num.p), k |-> 0]
  ELSE [n |-> num.m, k |-> num.p - q]

\* Whether n / d (d > 0) is a half-integer.
HalfWay(n, d) == 2 * (n % d) = d

\* Math.round of the double computed for the exact value n / d (d > 0): the
\* nearest integer, a tie going to +Infinity; on an exact half-integer the
\* double is the tie itself (drift 0) or lies beside it (drift < 0: below).
RoundDiv(n, d, drift) ==
  (n \div d) + (IF 2 * (n % d) < d THEN 0
                ELSE IF 2 * (n % d) > d THEN 1
                ELSE IF drift < 0 THEN 0 ELSE 1)

\* Math.round(num * multiplier) for the exact product v.n / 10^v.k; drift is
\* the change of magnitude the double's rounding makes on a tie.
MathRound(v, drift) ==
  IF v.k = 0 THEN v.n
  ELSE IF v.k > 9 THEN 0
  ELSE RoundDiv(v.n, Pow10(v.k), Sign(v.n) * drift)

\* Math.round(result * Math.pow(10, d)) / Math.pow(10, d) of a decimal result.
RoundDec(result, d, drift) ==
  Norm(MathRound(Times10(result, d), drift), d)

\* n / q in lowest terms, the denominator positive.
RatOf(n, q, g) == [n |-> Sign(q) * (n \div g), d |-> Abs(q) \div g]

Rat(n, q) == RatOf(n, q, Gcd(Abs(n), Abs(q)))

\* Math.round(result * Math.pow(10, d)) / Math.pow(10, d) of a quotient n/d.
RoundRat(result, d, drift) ==
  Norm((result.n \div result.d) * Pow10(d)
       + RoundDiv((result.n % result.d) * Pow10(d), result.d,
                  Sign(result.n) * drift), d)

\* The test with 0 let through.
RoundsFromZero(dec) == dec # <<>> /\ dec[1] >= 0

\* decimal !== undefined && decimal > 0
Rounds(dec) == dec # <<>> /\ dec[1] > 0

\* The closing lines of the three decimal-valued functions: the result,
\* rounded when decimal asks for it.
roundResult(result, dec, drift) ==
  IF Rounds(dec) THEN RoundDec(result, dec[1], drift) ELSE result

Value(v) == [kind |-> "value", val |-> v]

Throw(msg) == [kind |-> "throw", error |-> msg]

\* (Math.round(num1 * multiplier) + Math.round(num2 * multiplier)) / multiplier
addScaled(n1, n2, maxPlaces, drift) ==
  Norm(MathRound(Times10(n1, maxPlaces), drift)
       + MathRound(Times10(n2, maxPlaces), drift), maxPlaces)

\* The const `result` of addition.
additionResult(n1, n2, m) ==
  addScaled(n1, n2, Max(getDecimalPlaces(n1), getDecimalPlaces(n2)), m.o)

addition(n1, n2, dec, m) ==
  Value(roundResult(additionResult(n1, n2, m), dec, m.r))

\* (Math.round(num1 * multiplier) - Math.round(num2 * multiplier)) / multiplier
subtractScaled(n1, n2, maxPlaces, drift) ==
  Norm(MathRound(Times10(n1, maxPlaces), drift)
       - MathRound(Times10(n2, maxPlaces), drift), maxPlaces)

\* The const `result` of subtraction.
subtractionResult(n1, n2, m) ==
  subtractScaled(n1, n2, Max(getDecimalPlaces(n1), getDecimalPlaces(n2)), m.o)

subtraction(n1, n2, dec, m) ==
  Value(roundResult(subtractionResult(n1, n2, m), dec, m.r))

\* (Math.round(num1 * multiplier1) * Math.round(num2 * multiplier2))
\*   / Math.pow(10, totalPlaces)
multiplyScaled(n1, n2, places1, places2, drift) ==
  Norm(MathRound(Times10(n1, places1), drift)
       * MathRound(Times10(n2, places2), drift), places1 + places2)

\* The const `result` of multiplication.
multiplicationResult(n1, n2, m) ==
  multiplyScaled(n1, n2, getDecimalPlaces(n1), getDecimalPlaces(n2), m.o)

multiplication(n1, n2, dec, m) ==
  Value(roundResult(multiplicationResult(n1, n2, m), dec, m.r))

\* The two rounded integers divisionOperation divides.
scaledPair(n1, n2, maxPlaces, drift) ==
  [a |-> MathRound(Times10(n1, maxPlaces), drift),
   b |-> MathRound(Times10(n2, maxPlaces), drift)]

divisionScaled(n1, n2, m) ==
  scaledPair(n1, n2, Max(getDecimalPlaces(n1), getDecimalPlaces(n2)), m.o)

\* Math.round(num1 * multiplier1) / Math.round(num2 * multiplier2): a
\* quotient, or what IEEE division by a divisor rounded to zero gives (that
\* zero has the sign of num2).
quotientOf(s, sign2) ==
  IF s.b = 0
  THEN (IF s.a = 0 THEN [kind |-> "NaN"]
        ELSE [kind |-> "Infinity", sign |-> Sign(s.a) * sign2])
  ELSE [kind |-> "quotient", q |-> Rat(s.a, s.b)]

\* The const `result` of divisionOperation.
divisionResult(n1, n2, m) == quotientOf(divisionScaled(n1, n2, m), Sign(n2.m))

\* The closing lines of divisionOperation.
roundQuotient(result, dec, drift) ==
  IF result.kind = "quotient" /\ Rounds(dec)
  THEN [kind |-> "decimal", d |-> RoundRat(result.q, dec[1], drift)]
  ELSE result

\* divisionOperation without its test of the divisor.
divisionUnchecked(n1, n2, dec, m) ==
  Value(roundQuotient(divisionResult(n1, n2, m), dec, m.r))

divisionOperation(n1, n2, dec, m) ==
  IF n2.m = 0 THEN Throw("Division by zero is not allowed")
  ELSE Value(roundQuotient(divisionResult(n1, n2, m), dec, m.r))

\* ------------------------------------------- the arithmetic calls (SpecMath)
\* The operands: every decimal of up to MaxPlaces fractional digits with a
\* mantissa of magnitude up to MaxMant (the first operand non-negative), each
\* pair with every decimal argument up to MaxDecimal, and the calls of the
\* documented examples.
Decs ==
  {Norm(m, p) : m \in (-MaxMant)..MaxMant, p \in 0..MaxPlaces}

FirstDecs ==
  {Norm(m, p) : m \in 0..MaxMant, p \in 0..MaxPlaces}

Decimals == {<<>>} \cup {<<d>> : d \in 0..MaxDecimal}

D(m, p) == [m |-> m, p |-> p]

ExampleCalls ==
  { <<D(1, 1), D(2, 1), <<>>>>,          \* addition(0.1, 0.2)
    <<D(126, 3), D(238, 3), <<2>>>>,     \* addition(0.126, 0.238, 2)
    <<D(2342, 4), D(1233, 4), <<3>>>>,   \* subtraction(0.2342, 0.1233, 3)
    <<D(12, 1), D(21, 1), <<>>>>,        \* multiplication(1.2, 2.1)
    <<D(42, 1), D(21, 1), <<>>>>,        \* divisionOperation(4.2, 2.1)
    <<D(873, 2), D(216, 2), <<2>>>>,     \* divisionOperation(8.73, 2.16, 2)
    <<D(1005, 3), D(0, 0), <<2>>>>,      \* 1.005 to two places: a tie
    <<D(11, 7), D(15, 8), <<>>>> }       \* 0.0000011 and 1.5e-7

Calls == (FirstDecs \X Decs \X Decimals) \cup ExampleCalls

Drift == {-1, 0, 1}

Mus == [o : Drift, r : Drift]

NoMu == [o |-> 0, r |-> 0]

NoOut == [kind |-> "none"]

NoVal == [kind |-> "finite", neg |-> FALSE, ds |-> <<>>, n |-> 0]

InitMath ==
  /\ pc = "call"
  /\ fn = "none"
  /\ \E c \in Calls : num1 = c[1] /\ num2 = c[2] /\ decimal = c[3]
  /\ mu = NoMu
  /\ val = NoVal
  /\ format = <<>>
  /\ build = "none"
  /\ out = NoOut
  /\ NoChinese
  /\ NoCoord
  /\ NoLater

Return(f, m, o) ==
  /\ pc' = "done"
  /\ fn' = f
  /\ mu' = m
  /\ out' = o
  /\ UNCHANGED <<num1, num2, decimal, val, format, build, chineseVars, coordVars, laterVars>>

\* Whether one of the operands of f, scaled as f scales it, is a half-integer.
TieAt(n1, n2, q1, q2) ==
  \/ (q1 < n1.p /\ n1.p - q1 <= 9 /\ HalfWay(n1.m, Pow10(n1.p - q1)))
  \/ (q2 < n2.p /\ n2.p - q2 <= 9 /\ HalfWay(n2.m, Pow10(n2.p - q2)))

TieOf(f, n1, n2, places1, places2) ==
  IF f = "multiplication" THEN TieAt(n1, n2, places1, places2)
  ELSE TieAt(n1, n2, Max(places1, places2), Max(places1, places2))

OperandTie(f, n1, n2) ==
  TieOf(f, n1, n2, getDecimalPlaces(n1), getDecimalPlaces(n2))

\* result * 10^d is a half-integer, for a decimal result and for a quotient.
DecTie(result, d) ==
  d < result.p /\ result.p - d <= 9 /\ HalfWay(result.m, Pow10(result.p - d))

RatTie(result, d) ==
  /\ result.kind = "quotient"
  /\ HalfWay((result.q.n % result.q.d) * Pow10(d), result.q.d)

\* The const `result` of f.
resultOf(f, n1, n2, m) ==
  IF f = "addition" THEN additionResult(n1, n2, m)
  ELSE IF f = "subtraction" THEN subtractionResult(n1, n2, m)
  ELSE IF f = "multiplication" THEN multiplicationResult(n1, n2, m)
  ELSE divisionResult(n1, n2, m)

ResultTie(f, n1, n2, dec, m) ==
  /\ Rounds(dec)
  /\ IF f = "divisionOperation"
     THEN n2.m # 0 /\ RatTie(resultOf(f, n1, n2, m), dec[1])
     ELSE DecTie(resultOf(f, n1, n2, m), dec[1])

\* The outcomes of the doubles' rounding that a call of f can meet: a drift
\* is drawn only where the exact product is a tie (elsewhere it changes
\* nothing).
MusWhere(f, n1, n2, dec, ot, rt) ==
  {m \in Mus : /\ (m.o = 0 \/ ot)
               /\ (m.r = 0 \/ IF m.o = 0 THEN rt
                              ELSE ResultTie(f, n1, n2, dec, [o |-> m.o, r |-> 0]))}

MusFor(f, n1, n2, dec) ==
  MusWhere(f, n1, n2, dec, OperandTie(f, n1, n2), ResultTie(f, n1, n2, dec, NoMu))

\* The quotient is taken for operands whose scaled integers stay below
\* DivLimit (the integers of the model are 32 bits wide).
PairFits(s) == Abs(s.a) <= DivLimit /\ Abs(s.b) <= DivLimit

Fits(n1, n2, m) == n2.m = 0 \/ PairFits(divisionScaled(n1, n2, m))

Addition ==
  /\ pc = "call"
  /\ \E m \in MusFor("addition", num1, num2, decimal) :
       Return("addition", m, addition(num1, num2, decimal, m))

Subtraction ==
  /\ pc = "call"
  /\ \E m \in MusFor("subtraction", num1, num2, decimal) :
       Return("subtraction", m, subtraction(num1, num2, decimal, m))

Multiplication ==
  /\ pc = "call"
  /\ \E m \in MusFor("multiplication", num1, num2, decimal) :
       Return("multiplication", m, multiplication(num1, num2, decimal, m))

DivisionOperation ==
  /\ pc = "call"
  /\ \E m \in MusFor("divisionOperation", num1, num2, decimal) :
       /\ Fits(num1, num2, m)
       /\ Return("divisionOperation", m,
                 divisionOperation(num1, num2, decimal, m))

NextMath == Addition \/ Subtraction \/ Multiplication \/ DivisionOperation

SpecMath == InitMath /\ [][NextMath]_vars

\* ------------------------------------------------------- priceUppercase
\* A string is the sequence of its characters, each written by its reading:
\*   ling yi er san si wu liu qi ba jiu   the numerals of 0..9
\*   shi bai qian                          the units of 10, 100, 1000
\*   WAN YI                                the big units of 10^4 and 10^8
\*   jiao fen li hao                       the units of the four fractional digits
\*   yuan zheng fu                         the currency, "exactly" and "negative"
\* "undefined" is the text that concatenating the value undefined adds.
upperCaseNums == <<"ling", "yi", "er", "san", "si", "wu", "liu", "qi", "ba", "jiu">>

units == << <<>>, <<"shi">>, <<"bai">>, <<"qian">> >>

bigUnits == << <<>>, <<"WAN">>, <<"YI">> >>

decimalUnits == <<"jiao", "fen", "li", "hao">>

NaN == -1

DigitCharSet == {DigitChar(d) : d \in 0..9}

\* parseInt(c, 10) of one character: its digit, NaN for any other character.
parseInt(c) ==
  IF c \in DigitCharSet THEN CHOOSE d \in 0..9 : DigitChar(d) = c ELSE NaN

\* upperCaseNums[digit] in a concatenation.
numeralOf(digit) ==
  IF digit = NaN THEN "undefined" ELSE upperCaseNums[digit + 1]

Reverse(sq) == [i \in 1..Len(sq) |-> sq[Len(sq) + 1 - i]]

\* n.split('').map(d => parseInt(d, 10)).reverse()
digitsOf(n) == Reverse([i \in 1..Len(n) |-> parseInt(n[i])])

\* One pass of the inner loop: the digit at posInGroup, the least
\* significant first, is put in front of groupResult.
groupStep(g, digit, posInGroup) ==
  IF digit # 0
  THEN [groupResult |->
          (IF digit = 1 /\ posInGroup = 1 THEN <<"shi">>
           ELSE <<numeralOf(digit)>> \o units[posInGroup + 1])
          \o (IF g.needZero /\ g.hasValue THEN <<"ling">> ELSE <<>>)
          \o g.groupResult,
        hasValue |-> TRUE,
        needZero |-> FALSE]
  ELSE IF g.hasValue THEN [g EXCEPT !.needZero = TRUE]
  ELSE g

\* for (let i = start; i < end; i++), i counted from 0.
RECURSIVE groupLoop(_, _, _, _, _)
groupLoop(digits, i, end, start, g) ==
  IF i >= end THEN g
  ELSE groupLoop(digits, i + 1, end, start, groupStep(g, digits[i + 1], i - start))

NewGroup == [groupResult |-> <<>>, hasValue |-> FALSE, needZero |-> FALSE]

\* The big unit of the group above: bigUnits[groupIdx + 1] || ''
bigUnitAbove(groupIdx) == IF groupIdx <= 1 THEN bigUnits[groupIdx + 2] ELSE <<>>

\* bigUnits[groupIdx] || ''
bigUnitOf(groupIdx) == IF groupIdx <= 2 THEN bigUnits[groupIdx + 1] ELSE <<>>

\* groupResult with the big unit added.
withBigUnit(g, groupIdx) ==
  IF g.hasValue /\ groupIdx > 0 THEN g.groupResult \o bigUnitOf(groupIdx)
  ELSE g.groupResult

\* The mutation of mergeGroup that does not test result.
lingAfterGroup(result, g, groupResult) ==
  IF g.hasValue
  THEN groupResult \o (IF g.needZero THEN <<"ling">> ELSE <<>>) \o result
  ELSE result

\* The end of one pass of the outer loop: the group is put in front of result.
mergeGroup(result, g, groupResult) ==
  IF g.hasValue
  THEN groupResult
       \o (IF result # <<>> /\ g.needZero /\ Head(groupResult) # "ling"
           THEN <<"ling">> ELSE <<>>)
       \o result
  ELSE result

Min(x, y) == IF x <= y THEN x ELSE y

groupOf(digits, groupIdx) ==
  groupLoop(digits, groupIdx * 4, Min(groupIdx * 4 + 4, Len(digits)),
            groupIdx * 4, NewGroup)

mergeAt(result, g, groupIdx) == mergeGroup(result, g, withBigUnit(g, groupIdx))

\* for (let groupIdx = 0; groupIdx < groupCount; groupIdx++)
RECURSIVE groupsLoop(_, _, _, _)
groupsLoop(digits, groupIdx, groupCount, result) ==
  IF groupIdx >= groupCount THEN result
  ELSE groupsLoop(digits, groupIdx + 1, groupCount,
                  mergeAt(result, groupOf(digits, groupIdx), groupIdx))

convertDigits(digits) ==
  groupsLoop(digits, 0, (Len(digits) + 3) \div 4, <<>>)

convertInteger(n) ==
  IF n = <<"0">> \/ n = <<>> THEN <<>> ELSE convertDigits(digitsOf(n))

\* for (let i = 0; i < maxDecimals; i++), i counted from 1.
RECURSIVE decimalLoop(_, _, _, _)
decimalLoop(n, i, maxDecimals, result) ==
  IF i > maxDecimals THEN result
  ELSE decimalLoop(n, i + 1, maxDecimals,
                   IF parseInt(n[i]) # 0
                   THEN result \o <<numeralOf(parseInt(n[i])), decimalUnits[i]>>
                   ELSE result)

convertDecimal(n) ==
  IF n = <<>> THEN <<>> ELSE decimalLoop(n, 1, Min(Len(n), 4), <<>>)

\* The closing lines: sign, integer numeral and yuan, then the fractional
\* numeral or the suffix.
compose(isNegative, integerStr, decimalStr, suffix) ==
  (IF isNegative THEN <<"fu">> ELSE <<>>)
  \o (IF integerStr # <<>>
      THEN integerStr \o <<"yuan">> \o (IF decimalStr = <<>> THEN suffix ELSE decimalStr)
      ELSE decimalStr)

\* let [integerPart, decimalPart = ''] = numStr.split('.')
composeParts(isNegative, parts, suffix) ==
  compose(isNegative, convertInteger(parts[1]),
          convertDecimal(IF Len(parts) >= 2 THEN parts[2] ELSE <<>>), suffix)

\* The number left as it is, where Math.abs belongs.
MathAbsSkipped(num) == num

MathAbs(num) == [num EXCEPT !.neg = FALSE]

\* num === 0
IsZero(num) == num.kind = "finite" /\ num.ds = <<>>

\* The body both versions share, from the test for 0 on.
upperCaseOf(num, suffix) ==
  IF IsZero(num) THEN Value(<<"ling", "yuan", "zheng">>)
  ELSE Value(composeParts(num.neg, SplitDot(NumberToString(MathAbs(num))), suffix))

\* priceUppercase(num) of amount.ts: the suffix is always zheng.
priceUppercaseFixed(num) == upperCaseOf(num, <<"zheng">>)

\* priceUppercase(val, format) of the version with a suffix argument.  It
\* declares `const num = val` and then assigns `num = Math.abs(num)`: in a
\* build that lowers const to var the assignment is made, in a build that
\* keeps const it throws a TypeError when reached.
priceUppercase(v, fmt, b) ==
  IF ~IsZero(v) /\ b = "const"
  THEN Throw("TypeError: Assignment to constant variable.")
  ELSE upperCaseOf(v, fmt)

\* ----------------------------------------- the priceUppercase calls (SpecPrice)
MaxSig == 6
MaxLeadZeros == 6
MaxPoint == 12

PriceDigits == {0, 1, 2}

\* The significant digits of an amount: no leading and no trailing zero.
SigSeqs ==
  UNION {{sq \in [1..k -> PriceDigits] : sq[1] # 0 /\ sq[k] # 0} : k \in 1..MaxSig}

A(neg, ds, n) == [kind |-> "finite", neg |-> neg, ds |-> ds, n |-> n]

\* The numbers that are not finite: NaN (what a non-numeric value becomes in
\* Math.abs) and the two infinities.
NotANumber == [kind |-> "NaN", neg |-> FALSE, ds |-> <<>>, n |-> 0]

Infinite(neg) == [kind |-> "Infinity", neg |-> neg, ds |-> <<>>, n |-> 0]

NonFinite == {NotANumber, Infinite(FALSE), Infinite(TRUE)}

ExampleAmounts ==
  { A(FALSE, <<1, 2, 3, 4, 5, 6, 7>>, 7),          \* 1234567
    A(FALSE, <<1, 2, 3, 4, 5, 6, 7, 1, 2, 3>>, 7), \* 1234567.123
    A(FALSE, <<1, 2, 3, 4, 5>>, 3),                \* 123.45
    A(FALSE, <<5>>, 0),                            \* 0.5
    A(FALSE, <<1, 2, 3, 4, 5, 6, 7, 8, 9>>, 12),   \* 123456789000
    A(TRUE, <<9, 0, 8, 0, 7, 0, 6, 0, 5>>, 5) }    \* -90807.0605

\* The amounts: zero, the numbers that are not finite, every sign, digit sequence and position of the point
\* from MaxLeadZeros zeros after it (0.0000001 = 1e-7) to MaxPoint digits
\* before it, and the amounts of the documented examples.
Amounts ==
  {NoVal} \cup NonFinite \cup ExampleAmounts
  \cup {A(neg, ds, n) : neg \in BOOLEAN, ds \in SigSeqs,
                        n \in (-MaxLeadZeros)..MaxPoint}

Formats == {<<"zheng">>, <<>>}

Builds == {"var", "const"}

InitPrice ==
  /\ pc = "call"
  /\ fn = "none"
  /\ num1 = D(0, 0)
  /\ num2 = D(0, 0)
  /\ decimal = <<>>
  /\ mu = NoMu
  /\ val \in Amounts
  /\ format \in Formats
  /\ build = "none"
  /\ out = NoOut
  /\ NoChinese
  /\ NoCoord
  /\ NoLater

\* priceUppercase(val) of amount.ts; the call gives no suffix.
PriceUppercaseFixed ==
  /\ pc = "call"
  /\ format = <<"zheng">>
  /\ pc' = "done"
  /\ fn' = "priceUppercaseFixed"
  /\ out' = priceUppercaseFixed(val)
  /\ UNCHANGED <<num1, num2, decimal, mu, val, format, build, chineseVars, coordVars, laterVars>>

\* priceUppercase(val, format), in either build.
PriceUppercase ==
  /\ pc = "call"
  /\ \E b \in Builds :
       /\ build' = b
       /\ out' = priceUppercase(val, format, b)
  /\ pc' = "done"
  /\ fn' = "priceUppercase"
  /\ UNCHANGED <<num1, num2, decimal, mu, val, format, chineseVars, coordVars, laterVars>>

NextPrice == PriceUppercaseFixed \/ PriceUppercase

SpecPrice == InitPrice /\ [][NextPrice]_vars

\* ------------------------------------------------------ numberToChinese
\* The argument is a number, or a string: [kind |-> "string", chars |-> ...].
Str(chars) == [kind |-> "string", chars |-> chars]

\* String(num)
StringOf(x) == IF x.kind = "string" THEN x.chars ELSE NumberToString(x)

RECURSIVE TrimStart(_)
TrimStart(str) ==
  IF str # <<>> /\ Head(str) = " " THEN TrimStart(Tail(str)) ELSE str

RECURSIVE TrimEnd(_)
TrimEnd(str) ==
  IF str # <<>> /\ str[Len(str)] = " "
  THEN TrimEnd(SubSeq(str, 1, Len(str) - 1)) ELSE str

\* The index after the digits that start at i.
RECURSIVE DigitRunEnd(_, _)
DigitRunEnd(str, i) ==
  IF i <= Len(str) /\ str[i] \in DigitCharSet THEN DigitRunEnd(str, i + 1) ELSE i

\* The digits of str from a up to b - 1.
digitValues(str, a, b) == [i \in 1..(b - a) |-> parseInt(str[a + i - 1])]

RECURSIVE LeadingZeros(_)
LeadingZeros(ds) ==
  IF ds # <<>> /\ Head(ds) = 0 THEN 1 + LeadingZeros(Tail(ds)) ELSE 0

RECURSIVE IntOf(_)
IntOf(ds) ==
  IF ds = <<>> THEN 0 ELSE 10 * IntOf(SubSeq(ds, 1, Len(ds) - 1)) + ds[Len(ds)]

\* The number with the digits all and the point after pointPos of them;
\* lead of the digits are leading zeros.
numberOf(neg, all, pointPos, lead) ==
  IF lead = Len(all) THEN [kind |-> "finite", neg |-> neg, ds |-> <<>>, n |-> 0]
  ELSE [kind |-> "finite", neg |-> neg,
        ds |-> StripZeros(SubSeq(all, lead + 1, Len(all))),
        n |-> pointPos - lead]

\* The exponent part: its digits run from s to t - 1 and must end the string.
withExponent(str, neg, all, intLen, e, s, t) ==
  IF s = t \/ t # Len(str) + 1 THEN NotANumber
  ELSE numberOf(neg, all,
                intLen + (IF str[e + 1] = "-" THEN -1 ELSE 1)
                           * IntOf(digitValues(str, s, t)),
                LeadingZeros(all))

ExponentStart(str, e) ==
  IF e + 1 <= Len(str) /\ str[e + 1] \in {"+", "-"} THEN e + 2 ELSE e + 1

\* What follows the mantissa, which ends before e: nothing, or an exponent.
afterMantissa(str, neg, all, intLen, e) ==
  IF all = <<>> THEN NotANumber
  ELSE IF e = Len(str) + 1 THEN numberOf(neg, all, intLen, LeadingZeros(all))
  ELSE IF str[e] \in {"e", "E"}
       THEN withExponent(str, neg, all, intLen, e, ExponentStart(str, e),
                         DigitRunEnd(str, ExponentStart(str, e)))
  ELSE NotANumber

withFraction(str, neg, i, a, b) ==
  afterMantissa(str, neg, digitValues(str, i, a) \o digitValues(str, a + 1, b),
                a - i, b)

\* The mantissa from i, its integer digits ending before a.
mantissa(str, neg, i, a) ==
  IF a <= Len(str) /\ str[a] = "."
  THEN withFraction(str, neg, i, a, DigitRunEnd(str, a + 1))
  ELSE afterMantissa(str, neg, digitValues(str, i, a), a - i, a)

unsignedNumber(str, neg, i) ==
  IF SubSeq(str, i, Len(str)) = <<"I", "n", "f", "i", "n", "i", "t", "y">>
  THEN Infinite(neg)
  ELSE mantissa(str, neg, i, DigitRunEnd(str, i))

trimmedNumber(str) ==
  IF str = <<>> THEN [kind |-> "finite", neg |-> FALSE, ds |-> <<>>, n |-> 0]
  ELSE IF str[1] \in {"+", "-"} THEN unsignedNumber(str, str[1] = "-", 2)
  ELSE unsignedNumber(str, FALSE, 1)

\* Number(str) for a string of decimal syntax: white space trimmed, the
\* empty string 0, a signed decimal literal with optional fraction and
\* exponent, Infinity, and NaN for anything else.  (Literals with a radix
\* prefix and exponents beyond the range of a double are not among the
\* strings drawn.)
StringToNumber(str) == trimmedNumber(TrimEnd(TrimStart(str)))

\* The characters of the plain numerals, written by their meaning: one ...
\* nine, ten, hundred, thousand; ling, WAN, YI and fu are those of
\* priceUppercase.
chineseDigits ==
  <<"ling", "one", "two", "three", "four", "five", "six", "seven", "eight", "nine">>

chineseUnits == << <<>>, <<"ten">>, <<"hundred">>, <<"thousand">> >>

\* The digits before the point, for a finite number that is not negative.
integerDigits(v) ==
  [i \in 1..Max(v.n, 0) |-> IF i <= Len(v.ds) THEN v.ds[i] ELSE 0]

\* The digits after the point.
fractionDigits(v) ==
  [i \in 1..Max(Len(v.ds) - v.n, 0) |-> IF i + v.n >= 1 THEN v.ds[i + v.n] ELSE 0]

\* value > 0
IsPositive(v) ==
  \/ (v.kind = "Infinity" /\ ~v.neg)
  \/ (v.kind = "finite" /\ v.ds # <<>> /\ ~v.neg)

\* The last four integer digits and the fraction, as a number.
lowDigits(ints, fracs, k) ==
  numberOf(FALSE, SubSeq(ints, Len(ints) - k + 1, Len(ints)) \o fracs, k,
           LeadingZeros(SubSeq(ints, Len(ints) - k + 1, Len(ints)) \o fracs))

\* value % 10000, for a value that is positive (or Infinity: NaN).  The
\* remainder of a double is exact.
Mod10000(v) ==
  IF v.kind # "finite" THEN NotANumber
  ELSE lowDigits(integerDigits(v), fractionDigits(v), Min(Max(v.n, 0), 4))

\* Math.floor(value / 10000), for a value that is positive: the integer
\* digits but the last four (the quotient of an integer below 2^53 by 10000
\* is never rounded up to the next integer).
FloorDiv10000(v) ==
  IF v.kind # "finite" THEN v
  ELSE IF v.n <= 4 THEN [kind |-> "finite", neg |-> FALSE, ds |-> <<>>, n |-> 0]
  ELSE numberOf(FALSE, SubSeq(integerDigits(v), 1, v.n - 4), v.n - 4, 0)

\* The number of a segment, which is below 10000, in the terms the
\* conversion uses: its integer part, whether it has a fraction, whether it
\* is NaN (with which every comparison is false).
segmentOf(v) ==
  [nan |-> v.kind # "finite",
   int |-> IF v.kind = "finite" THEN IntOf(integerDigits(v)) ELSE 0,
   frac |-> v.kind = "finite" /\ fractionDigits(v) # <<>>]

\* digits[d] in a concatenation, d being an integer or (frac) not.
chineseDigit(d, frac) == IF frac THEN "undefined" ELSE chineseDigits[d + 1]

NeedZero(needZero) == IF needZero THEN <<"ling">> ELSE <<>>

\* The thousands place (qian): text and needZero after it.
qianStep(sg, index, count) ==
  IF sg.int \div 1000 > 0
  THEN [text |-> <<chineseDigit(sg.int \div 1000, FALSE)>> \o chineseUnits[4],
        needZero |-> FALSE]
  ELSE [text |-> <<>>,
        needZero |-> index < count - 1 /\ (sg.int > 0 \/ sg.frac)]

\* The hundreds place (bai).
baiStep(st, sg) ==
  IF (sg.int % 1000) \div 100 > 0
  THEN [text |-> st.text \o NeedZero(st.needZero)
                 \o <<chineseDigit((sg.int % 1000) \div 100, FALSE)>>
                 \o chineseUnits[3],
        needZero |-> FALSE]
  ELSE IF st.text # <<>> /\ (sg.int % 1000 > 0 \/ sg.frac)
  THEN [st EXCEPT !.needZero = TRUE]
  ELSE st

\* The tens place (shi): a 1 is the unit alone in a number of one segment.
shiStep(st, sg, index, count) ==
  IF (sg.int % 100) \div 10 > 0
  THEN [text |-> st.text \o NeedZero(st.needZero)
                 \o (IF (sg.int % 100) \div 10 = 1 /\ index = 0 /\ count = 1
                     THEN chineseUnits[2]
                     ELSE <<chineseDigit((sg.int % 100) \div 10, FALSE)>>
                          \o chineseUnits[2]),
        needZero |-> FALSE]
  ELSE IF st.text # <<>> /\ (sg.int % 100 > 0 \/ sg.frac)
  THEN [st EXCEPT !.needZero = TRUE]
  ELSE st

\* The ones place (ge): the text of the segment's digits.
geStep(st, sg) ==
  IF sg.int % 10 > 0 \/ sg.frac
  THEN st.text \o NeedZero(st.needZero) \o <<chineseDigit(sg.int % 10, sg.frac)>>
  ELSE st.text

\* The unit of the segment: WAN for index 1, YI for index 2.
segmentUnit(index) ==
  IF index = 1 THEN <<"WAN">> ELSE IF index = 2 THEN <<"YI">> ELSE <<>>

\* The callback of segments.map, for the number sg of the segment.
convertSegment(sg, index, count) ==
  IF ~sg.nan /\ sg.int = 0 /\ ~sg.frac THEN <<>>
  ELSE geStep(shiStep(baiStep(qianStep(sg, index, count), sg), sg, index, count), sg)
       \o segmentUnit(index)

segmentText(segmentStr, index, count) ==
  convertSegment(segmentOf(StringToNumber(segmentStr)), index, count)

\* segmentTexts.reverse().join(''): the texts from segment i down to the first.
RECURSIVE joinFrom(_, _, _)
joinFrom(segs, i, count) ==
  IF i < 1 THEN <<>>
  ELSE segmentText(segs[i], i - 1, count) \o joinFrom(segs, i - 1, count)

\* The result, from isNegative and the segments.
chineseResult(isNegative, segs) ==
  (IF isNegative THEN <<"fu">> ELSE <<>>) \o joinFrom(segs, Len(segs), Len(segs))

\* ------------------------------------------------- numberToChinese, calls

\* The loop of numberToChinese is cut after MaxSegments segments.
MaxSegments == 4

\* The most digits before the point of an argument.
MaxChinesePoint == 13

\* The strings given as argument: empty, blank, not numeric, numeric.
ExampleStrings ==
  { <<>>, <<" ">>, <<"a", "b", "c">>, <<"1", "2", "a">>, <<"N", "a", "N">>,
    <<"1", "e", "3">>, <<"-", "1", "0">>, <<" ", "1", "1", "0", " ">>,
    <<"1", ".", "5">>, <<"0", "0", "1", "2">> }

\* The numbers with a fraction: below 10000, or with a fraction that is a
\* multiple of a power of 1/2, so that value % 10000 has the digits of the
\* value.
ExampleFractions ==
  { A(FALSE, <<1, 5>>, 1),                \* 1.5
    A(TRUE, <<1, 2, 5>>, 2),              \* -12.5
    A(FALSE, <<1, 2, 3, 4, 5>>, 3),       \* 123.45
    A(FALSE, <<1, 0, 0, 0, 0, 5>>, 5),    \* 10000.5
    A(FALSE, <<2, 5>>, 0) }               \* 0.25

\* The examples of the documentation.
ExampleNumbers ==
  { A(FALSE, <<1, 2, 3>>, 3),             \* 123 
    A(FALSE, <<1, 0, 0, 0, 1>>, 5),       \* 10001
    A(FALSE, <<1, 2, 3, 4, 5, 6, 7, 8, 9>>, 9),
    A(TRUE, <<4, 5, 6>>, 3),
    A(FALSE, <<9, 8, 7, 6, 5, 4, 3, 2, 1>>, 12) }

\* The integers: every sign, digit sequence and number of zeros after it.
WholeNumbers ==
  {A(neg, ds, n) : neg \in BOOLEAN, ds \in SigSeqs, n \in 1..MaxChinesePoint}

ChineseArguments ==
  {NoVal} \cup NonFinite \cup ExampleNumbers \cup ExampleFractions
  \cup {v \in WholeNumbers : v.n >= Len(v.ds)}
  \cup {Str(chars) : chars \in ExampleStrings}

InitChinese ==
  /\ pc = "call"
  /\ fn = "none"
  /\ num1 = D(0, 0)
  /\ num2 = D(0, 0)
  /\ decimal = <<>>
  /\ mu = NoMu
  /\ val = NoVal
  /\ format = <<>>
  /\ build = "none"
  /\ out = NoOut
  /\ numArg \in ChineseArguments
  /\ value = <<>>
  /\ segments = <<>>
  /\ NoCoord
  /\ NoLater

otherVars == <<num1, num2, decimal, mu, val, format, build>>

\* The test left out: no argument is turned away.
NothingRejected(numStr) == FALSE

\* The test of the argument: '' for a string that is empty or not a number.
IsRejected(numStr) == numStr = <<>> \/ StringToNumber(numStr).kind = "NaN"

\* numberToChinese(num), to the loop over the value: lines 287-306.
enterNumberToChinese(numStr, numValue) ==
  IF IsRejected(numStr)
  THEN /\ out' = Value(<<>>)
       /\ pc' = "done"
       /\ UNCHANGED <<value, segments>>
  ELSE IF IsZero(numValue)
  THEN /\ out' = Value(<<"ling">>)
       /\ pc' = "done"
       /\ UNCHANGED <<value, segments>>
  ELSE /\ value' = [isNegative |-> numValue.neg, value |-> MathAbs(numValue)]
       /\ segments' = <<>>
       /\ pc' = "loop"
       /\ UNCHANGED out

NumberToChinese ==
  /\ pc = "call"
  /\ fn' = "numberToChinese"
  /\ enterNumberToChinese(StringOf(numArg), StringToNumber(StringOf(numArg)))
  /\ UNCHANGED <<numArg, otherVars, coordVars, laterVars>>

\* One turn of while (value > 0): lines 308-312.
SplitSegment ==
  /\ pc = "loop"
  /\ IsPositive(value.value)
  /\ Len(segments) < MaxSegments
  /\ segments' = Append(segments, NumberToString(Mod10000(value.value)))
  /\ value' = [value EXCEPT !.value = FloorDiv10000(value.value)]
  /\ UNCHANGED <<pc, fn, out, numArg, otherVars, coordVars, laterVars>>

\* After the loop: lines 315-390.
JoinSegments ==
  /\ pc = "loop"
  /\ ~IsPositive(value.value)
  /\ out' = Value(chineseResult(value.isNegative, segments))
  /\ pc' = "done"
  /\ UNCHANGED <<fn, numArg, value, segments, otherVars, coordVars, laterVars>>

NextChinese == NumberToChinese \/ SplitSegment \/ JoinSegments

SpecChinese == InitChinese /\ [][NextChinese]_vars

\* What a call of one group of functions leaves alone: the variables of the
\* others, which keep the values they have when they are not in use.
NoOther ==
  /\ num1 = D(0, 0) /\ num2 = D(0, 0) /\ decimal = <<>> /\ mu = NoMu
  /\ val = NoVal /\ format = <<>> /\ build = "none"

besidesDevice == <<otherVars, chineseVars, coordVars, thousandsVars, divideVars, mouseVars, storageVars>>

NoneBesidesDevice == NoOther /\ NoChinese /\ NoCoord /\ NoThousands /\ NoDivide /\ NoMouse /\ NoStorage

besidesThousands == <<otherVars, chineseVars, coordVars, deviceVars, divideVars, mouseVars, storageVars>>

NoneBesidesThousands == NoOther /\ NoChinese /\ NoCoord /\ NoDevice /\ NoDivide /\ NoMouse /\ NoStorage

besidesDivide == <<otherVars, chineseVars, coordVars, deviceVars, thousandsVars, mouseVars, storageVars>>

NoneBesidesDivide == NoOther /\ NoChinese /\ NoCoord /\ NoDevice /\ NoThousands /\ NoMouse /\ NoStorage

besidesMouse == <<otherVars, chineseVars, coordVars, deviceVars, thousandsVars, divideVars, storageVars>>

NoneBesidesMouse == NoOther /\ NoChinese /\ NoCoord /\ NoDevice /\ NoThousands /\ NoDivide /\ NoStorage

besidesStorage == <<otherVars, chineseVars, coordVars, deviceVars, thousandsVars, divideVars, mouseVars>>

NoneBesidesStorage == NoOther /\ NoChinese /\ NoCoord /\ NoDevice /\ NoThousands /\ NoDivide /\ NoMouse

\* --------------------------------------------- coordtransform, numbers
\*
\* The coordinates and every intermediate value are fixed-point numbers of
\* FracLimbs limbs after the point, a limb being four decimal digits: a
\* number is [neg, mag], mag the limbs of |x| * Base^FracLimbs, lowest first,
\* without leading zero limbs.  Every operation truncates its exact result
\* to that grid, where the program rounds to a double.

Base == 10000

FracLimbs == 3

\* The highest of a set of integers.
TopOf(S) == CHOOSE i \in S : \A j \in S : j <= i

\* a without its leading zero limbs
Trim(a) == SubSeq(a, 1, TopOf({0} \cup {i \in 1..Len(a) : a[i] # 0}))

Limb(a, i) == IF i >= 1 /\ i <= Len(a) THEN a[i] ELSE 0

\* The sum of a sequence of natural numbers.
Sum(f) == BagCardinality([i \in 1..Len(f) |-> f[i] + 1]) - Len(f)

\* The carry into the limb i of a + b: a limb below overflows, and every
\* limb between the two passes the carry on.
CarryIn(a, b, i) ==
  \E j \in 1..(i - 1) :
    /\ Limb(a, j) + Limb(b, j) >= Base
    /\ \A k \in (j + 1)..(i - 1) : Limb(a, k) + Limb(b, k) = Base - 1

MagAdd(a, b) ==
  Trim([i \in 1..(Max(Len(a), Len(b)) + 1) |->
         (Limb(a, i) + Limb(b, i) + (IF CarryIn(a, b, i) THEN 1 ELSE 0))
         % Base])

\* The borrow from the limb i of a - b.
BorrowIn(a, b, i) ==
  \E j \in 1..(i - 1) :
    /\ a[j] < Limb(b, j)
    /\ \A k \in (j + 1)..(i - 1) : a[k] = Limb(b, k)

\* a - b for a >= b
MagSub(a, b) ==
  Trim([i \in 1..Len(a) |->
         (a[i] - Limb(b, i) - (IF BorrowIn(a, b, i) THEN 1 ELSE 0) + Base)
         % Base])

\* The number whose limb i is cols[i], a natural number under Base^3: the
\* sum of the three numbers of its digits in base Base.
Spread(cols) ==
  MagAdd(MagAdd([i \in 1..Len(cols) |-> cols[i] % Base],
                <<0>> \o [i \in 1..Len(cols) |-> (cols[i] \div Base) % Base]),
         <<0, 0>> \o [i \in 1..Len(cols) |-> cols[i] \div (Base * Base)])

\* -1, 0, 1 as a < b, a = b, a > b: by the highest limb that differs.
CmpAt(a, b, S) ==
  IF S = {} THEN 0 ELSE IF a[TopOf(S)] < b[TopOf(S)] THEN -1 ELSE 1

MagCmp(a, b) ==
  IF Len(a) < Len(b) THEN -1
  ELSE IF Len(a) > Len(b) THEN 1
  ELSE CmpAt(a, b, {i \in 1..Len(a) : a[i] # b[i]})

\* a * k for a limb k
MagMulSmall(a, k) == Spread([i \in 1..Len(a) |-> a[i] * k])

\* a * Base^k
Shift(a, k) == IF a = <<>> THEN a ELSE [i \in 1..k |-> 0] \o a

\* a \div Base^k
Drop(a, k) == IF k >= Len(a) THEN <<>> ELSE SubSeq(a, k + 1, Len(a))

\* The limb k of a * b before the carries: the sum of the products of the
\* limbs i of a and k + 1 - i of b.
Column(a, b, k) == Sum([i \in 1..Len(a) |-> a[i] * Limb(b, k + 1 - i)])

MagMul(a, b) == Spread([k \in 1..(Len(a) + Len(b)) |-> Column(a, b, k)])

\* a \div k for a limb k > 0, from the limb i down and highest limb first,
\* rem being what is left of the limbs above.
RECURSIVE MagDivSmallFrom(_, _, _, _)
MagDivSmallFrom(a, k, i, rem) ==
  IF i = 0 THEN <<>>
  ELSE <<(rem * Base + a[i]) \div k>>
       \o MagDivSmallFrom(a, k, i - 1, (rem * Base + a[i]) % k)

MagDivSmall(a, k) == Trim(Reverse(MagDivSmallFrom(a, k, Len(a), 0)))

\* The largest q in lo..hi with b * q <= rem (b * lo <= rem).
QuotientLimb(rem, b, lo, hi) ==
  CHOOSE q \in lo..hi :
    /\ MagCmp(MagMulSmall(b, q), rem) <= 0
    /\ q = hi \/ MagCmp(MagMulSmall(b, q + 1), rem) > 0

\* The two limbs of rem that stand over the top limb of b.
TopTwo(rem, b) == Limb(rem, Len(b) + 1) * Base + Limb(rem, Len(b))

\* The quotient limb of rem by b, rem < b * Base.
NextLimb(rem, b) ==
  QuotientLimb(rem, b, TopTwo(rem, b) \div (b[Len(b)] + 1),
               Min(Base - 1, (TopTwo(rem, b) + 1) \div b[Len(b)]))

\* Long division, from the limb i of a down and highest limb first; rem is
\* what is left of the limbs above.
RECURSIVE MagDivFrom(_, _, _, _)
RECURSIVE bringDown(_, _, _, _)
RECURSIVE withLimb(_, _, _, _, _)
MagDivFrom(a, b, i, rem) ==
  IF i = 0 THEN <<>> ELSE bringDown(a, b, i, Trim(<<a[i]>> \o rem))

bringDown(a, b, i, cur) == withLimb(a, b, i, cur, NextLimb(cur, b))

withLimb(a, b, i, cur, q) ==
  <<q>> \o MagDivFrom(a, b, i - 1, MagSub(cur, MagMulSmall(b, q)))

\* a \div b for b > 0 whose top limb is Base \div 2 or more, so that the
\* quotient limbs are known from the top limbs to within 3; the top limbs of
\* a, one fewer than b has, give no quotient limb.
MagDivLong(a, b) ==
  IF Len(a) < Len(b) THEN <<>>
  ELSE Trim(Reverse(MagDivFrom(a, b, Len(a) - Len(b) + 1,
                               Trim(SubSeq(a, Len(a) - Len(b) + 2, Len(a))))))

\* a \div b for b > 0: both are scaled to bring the top limb of b to
\* Base \div 2 or more.
MagDiv(a, b) ==
  MagDivLong(MagMulSmall(a, Base \div (b[Len(b)] + 1)),
             MagMulSmall(b, Base \div (b[Len(b)] + 1)))

\* The integer square root of k < Base^2: its hundreds, then the rest.
SqrtIn(k, S) == CHOOSE r \in S : r * r <= k /\ (r + 1) * (r + 1) > k

\* The hundreds of the integer square root of k, k below Base * Base.
SqrtHundreds(k) ==
  CHOOSE h \in 0..99 :
    (100 * h) * (100 * h) <= k /\ (100 * (h + 1)) * (100 * (h + 1)) > k

SqrtLow(k, h) == SqrtIn(k, (100 * h)..(100 * h + 99))

SmallSqrt(k) == SqrtLow(k, SqrtHundreds(k))

\* The integer square root, by Newton's iteration from x above it.
RECURSIVE sqrtFrom(_, _)
RECURSIVE sqrtNext(_, _, _)
sqrtFrom(a, x) == sqrtNext(a, x, MagDivSmall(MagAdd(x, MagDiv(a, x)), 2))

sqrtNext(a, x, y) == IF MagCmp(y, x) >= 0 THEN x ELSE sqrtFrom(a, y)

\* The limbs of the natural number k.
RECURSIVE MagOf(_)
MagOf(k) == IF k = 0 THEN <<>> ELSE <<k % Base>> \o MagOf(k \div Base)

\* A number above the square root of a, within a hundredth of it: from the
\* top two limbs of a, and a factor of 100 for an odd number of limbs under
\* them.
AboveSqrt(a) ==
  IF Len(a) = 1 THEN MagOf(SmallSqrt(a[1]) + 1)
  ELSE IF Len(a) % 2 = 0
  THEN Shift(MagOf(SmallSqrt(a[Len(a)] * Base + a[Len(a) - 1]) + 1),
             (Len(a) - 2) \div 2)
  ELSE Shift(MagOf((SmallSqrt(a[Len(a)] * Base + a[Len(a) - 1]) + 1) * 100),
             (Len(a) - 3) \div 2)

MagSqrt(a) == IF a = <<>> THEN <<>> ELSE sqrtFrom(a, AboveSqrt(a))

\* The fixed-point numbers.
Fx(neg, mag) == [neg |-> neg /\ mag # <<>>, mag |-> mag]

\* The element of a set of one element.  An operation on fixed-point numbers
\* is the set of its results over the values of its operands: the operands
\* are evaluated before the operation, as the program evaluates them.
The(S) == CHOOSE r \in S : TRUE

\* The number ip.f1 f2 f3, with the three limbs of its fraction.
Num(ip, f1, f2, f3) == Fx(FALSE, Trim(<<f3, f2, f1>> \o MagOf(ip)))

FxNeg(x) == Fx(~x.neg, x.mag)

FxAbs(x) == Fx(FALSE, x.mag)

fxAdd(x, y) ==
  IF x.neg = y.neg THEN Fx(x.neg, MagAdd(x.mag, y.mag))
  ELSE IF MagCmp(x.mag, y.mag) >= 0 THEN Fx(x.neg, MagSub(x.mag, y.mag))
  ELSE Fx(y.neg, MagSub(y.mag, x.mag))

FxAdd(x, y) == The({fxAdd(a, b) : a \in {x}, b \in {y}})

FxSub(x, y) == The({fxAdd(a, FxNeg(b)) : a \in {x}, b \in {y}})

fxMul(x, y) == Fx(x.neg # y.neg, Drop(MagMul(x.mag, y.mag), FracLimbs))

FxMul(x, y) == The({fxMul(a, b) : a \in {x}, b \in {y}})

fxDiv(x, y) == Fx(x.neg # y.neg, MagDiv(Shift(x.mag, FracLimbs), y.mag))

FxDiv(x, y) == The({fxDiv(a, b) : a \in {x}, b \in {y}})

FxSqrt(x) == The({Fx(FALSE, MagSqrt(Shift(a.mag, FracLimbs))) : a \in {x}})

\* x < y
FxLess(x, y) ==
  IF x.neg # y.neg THEN x.neg
  ELSE IF x.neg THEN MagCmp(x.mag, y.mag) > 0
  ELSE MagCmp(x.mag, y.mag) < 0

FxDivSmall(x, k) == Fx(x.neg, MagDivSmall(x.mag, k))

FxMulSmall(x, k) == Fx(x.neg, MagMulSmall(x.mag, k))

\* The integer part of x, towards zero.
FxTrunc(x) == Fx(x.neg, Shift(Drop(x.mag, FracLimbs), FracLimbs))

\* pi, as the functions of Math have it.
MathPi == Num(3, 1415, 9265, 3590)

\* The sum of the series of the sine (of the cosine) from the term of x^n on:
\* term is that term, x2 the square of x.
RECURSIVE series(_, _, _)
series(term, x2, n) ==
  IF term.mag = <<>> THEN term
  ELSE fxAdd(term,
             series(FxNeg(FxDivSmall(fxMul(term, x2), (n + 1) * (n + 2))),
                    x2, n + 2))

\* The sine of x, 0 <= x <= pi/2: by the series of the sine up to pi/4, by
\* that of the cosine of pi/2 - x above.
sinQuarter(x) ==
  IF FxLess(FxDivSmall(MathPi, 4), x)
  THEN The({series(Num(1, 0, 0, 0), fxMul(c, c), 0) :
             c \in {fxAdd(FxDivSmall(MathPi, 2), FxNeg(x))}})
  ELSE The({series(x, x2, 1) : x2 \in {fxMul(x, x)}})

\* The sine of x, 0 <= x < 2 pi.
sinTurn(x) ==
  IF FxLess(FxDivSmall(MathPi, 2), x) /\ ~FxLess(MathPi, x)
  THEN sinQuarter(fxAdd(MathPi, FxNeg(x)))
  ELSE IF FxLess(MathPi, x) /\ ~FxLess(FxDivSmall(FxMulSmall(MathPi, 3), 2), x)
  THEN FxNeg(sinQuarter(fxAdd(x, FxNeg(MathPi))))
  ELSE IF FxLess(MathPi, x)
  THEN FxNeg(sinQuarter(fxAdd(FxMulSmall(MathPi, 2), FxNeg(x))))
  ELSE sinQuarter(x)

\* |x| less the whole turns in it.
lessTurns(x) ==
  fxAdd(FxAbs(x),
        FxNeg(fxMul(FxMulSmall(MathPi, 2),
                    FxTrunc(fxDiv(FxAbs(x), FxMulSmall(MathPi, 2))))))

\* v, negated if neg
Signed(neg, v) == Fx(neg # v.neg, v.mag)

\* Math.sin(x): the sine is odd.
MathSin(x) == The({Signed(a.neg, sinTurn(r)) : a \in {x}, r \in {lessTurns(x)}})

\* Math.cos(x)
MathCos(x) == MathSin(FxAdd(x, FxDivSmall(MathPi, 2)))

\* Math.sqrt(x), x >= 0
MathSqrt(x) == FxSqrt(x)

\* The sum of the series of the arc tangent from the term of x^n on: pw is
\* x^n with its sign, x2 the square of x.
RECURSIVE atanSeries(_, _, _)
atanSeries(pw, x2, n) ==
  IF pw.mag = <<>> THEN pw
  ELSE fxAdd(FxDivSmall(pw, n), atanSeries(FxNeg(fxMul(pw, x2)), x2, n + 2))

\* t / (1 + sqrt(1 + t^2)), the tangent of half the angle of tangent t.
halfTangent(t) ==
  FxDiv(t, FxAdd(Num(1, 0, 0, 0), FxSqrt(FxAdd(Num(1, 0, 0, 0), FxMul(t, t)))))

\* The arc tangent of t, from the tangent u of an eighth of its angle.
atanEighth(u) ==
  The({FxMulSmall(atanSeries(v, v2, 1), 8) : v \in {u}, v2 \in {FxMul(u, u)}})

\* The arc tangent of t, 0 <= t <= 1.
atanUnit(t) == atanEighth(halfTangent(halfTangent(halfTangent(t))))

\* The arc tangent of y / x, for x and y above 0.
atanRatio(y, x) ==
  IF MagCmp(y.mag, x.mag) <= 0 THEN atanUnit(FxDiv(y, x))
  ELSE FxSub(FxDivSmall(MathPi, 2), atanUnit(FxDiv(x, y)))

\* Math.atan2(y, x) of the values y and x.
atan2Of(y, x) ==
  IF x.mag = <<>>
  THEN (IF y.mag = <<>> THEN y ELSE Fx(y.neg, FxDivSmall(MathPi, 2).mag))
  ELSE IF y.mag = <<>> THEN (IF x.neg THEN MathPi ELSE y)
  ELSE IF ~x.neg THEN Signed(y.neg, atanRatio(FxAbs(y), x))
  ELSE Signed(y.neg, FxSub(MathPi, atanRatio(FxAbs(y), FxAbs(x))))

\* Math.atan2(y, x)
MathAtan2(y, x) == The({atan2Of(a, b) : a \in {y}, b \in {x}})


\* ------------------------------------------------------- coordtransform

One == Num(1, 0, 0, 0)

\* The number k, k a natural number.
Whole(k) == Num(k, 0, 0, 0)

X_PI == FxDiv(FxMul(Num(3, 1415, 9265, 3590), Whole(3000)), Whole(180))

PI == Num(3, 1415, 9265, 3590)

A_AXIS == Whole(6378245)

EE == Num(0, 66, 9342, 1623)

\* The box with its edges: what out_of_china would be were its comparisons
\* not strict.
outsideClosedBox(lng, lat) ==
  ~(/\ ~FxLess(lng, Num(73, 6600, 0, 0))
    /\ ~FxLess(Num(135, 500, 0, 0), lng)
    /\ ~FxLess(lat, Num(3, 8600, 0, 0))
    /\ ~FxLess(Num(53, 5500, 0, 0), lat))

out_of_china(lng, lat) ==
  ~(/\ FxLess(Num(73, 6600, 0, 0), lng)
    /\ FxLess(lng, Num(135, 500, 0, 0))
    /\ FxLess(Num(3, 8600, 0, 0), lat)
    /\ FxLess(lat, Num(53, 5500, 0, 0)))

\* ((a * sin(x) + b * sin(y)) * 2.0) / 3.0, a and b whole
sinPair(a, x, b, y) ==
  FxDiv(FxMul(FxAdd(FxMul(Whole(a), MathSin(x)), FxMul(Whole(b), MathSin(y))),
              Whole(2)),
        Whole(3))

\* 0.1 and 0.2
Tenth(k) == Num(0, 1000 * k, 0, 0)

transformLng(lng, lat) ==
  FxAdd(
    FxAdd(
      FxAdd(
        FxAdd(FxAdd(FxAdd(FxAdd(FxAdd(Whole(300), lng), FxMul(Whole(2), lat)),
                          FxMul(FxMul(Tenth(1), lng), lng)),
                    FxMul(FxMul(Tenth(1), lng), lat)),
              FxMul(Tenth(1), MathSqrt(FxAbs(lng)))),
        sinPair(20, FxMul(FxMul(Whole(6), lng), PI),
                20, FxMul(FxMul(Whole(2), lng), PI))),
      sinPair(20, FxMul(lng, PI), 40, FxMul(FxDiv(lng, Whole(3)), PI))),
    sinPair(150, FxMul(FxDiv(lng, Whole(12)), PI),
            300, FxMul(FxDiv(lng, Whole(30)), PI)))

transformLat(lng, lat) ==
  FxAdd(
    FxAdd(
      FxAdd(
        FxAdd(FxAdd(FxAdd(FxAdd(FxAdd(FxNeg(Whole(100)), FxMul(Whole(2), lng)),
                                FxMul(Whole(3), lat)),
                          FxMul(FxMul(Tenth(2), lat), lat)),
                    FxMul(FxMul(Tenth(1), lng), lat)),
              FxMul(Tenth(2), MathSqrt(FxAbs(lng)))),
        sinPair(20, FxMul(FxMul(Whole(6), lng), PI),
                20, FxMul(FxMul(Whole(2), lng), PI))),
      sinPair(20, FxMul(lat, PI), 40, FxMul(FxDiv(lat, Whole(3)), PI))),
    sinPair(160, FxMul(FxDiv(lat, Whole(12)), PI),
            320, FxDiv(FxMul(lat, PI), Whole(30))))

\* magic = 1 - EE * magic * magic, magic being Math.sin(radlat)
magicOf(sinlat) == FxSub(One, FxMul(FxMul(EE, sinlat), sinlat))

\* dlat = (dlat * 180.0) / (((A * (1 - EE)) / (magic * sqrtmagic)) * PI)
scaleLat(dlat, magic, sqrtmagic) ==
  FxDiv(FxMul(dlat, Whole(180)),
        FxMul(FxDiv(FxMul(A_AXIS, FxSub(One, EE)), FxMul(magic, sqrtmagic)), PI))

\* dlng = (dlng * 180.0) / ((A / sqrtmagic) * Math.cos(radlat) * PI)
scaleLng(dlng, sqrtmagic, radlat) ==
  FxDiv(FxMul(dlng, Whole(180)),
        FxMul(FxMul(FxDiv(A_AXIS, sqrtmagic), MathCos(radlat)), PI))

\* [mglng, mglat], from magic on.
marsFrom(lng, lat, radlat, magic) ==
  << FxAdd(lng, scaleLng(transformLng(FxSub(lng, Whole(105)), FxSub(lat, Whole(35))),
                         MathSqrt(magic), radlat)),
     FxAdd(lat, scaleLat(transformLat(FxSub(lng, Whole(105)), FxSub(lat, Whole(35))),
                         magic, MathSqrt(magic))) >>

\* [mglng, mglat]: the lines the two conversions share.
marsOf(lng, lat, radlat) ==
  The({marsFrom(lng, lat, radlat, magic) : magic \in {magicOf(MathSin(radlat))}})

mars(lng, lat) ==
  The({marsOf(lng, lat, radlat) : radlat \in {FxMul(FxDiv(lat, Whole(180)), PI)}})

\* The conversions give the pair and the return statement it comes from.
Pair(via, p) == The({[via |-> via, lng |-> q[1], lat |-> q[2]] : q \in {p}})

\* The conversion without the test of out_of_china.
withoutGuard(lng, lat) == Pair("formula", mars(lng, lat))

wgs84togcj02(lng, lat) ==
  IF out_of_china(lng, lat) THEN Pair("identity", <<lng, lat>>)
  ELSE Pair("formula", mars(lng, lat))

\* [mglng, mglat] itself, in the place of its mirror image.
notMirrored(lng, lat, mg) == mg

\* [lng * 2 - mglng, lat * 2 - mglat]
mirrored(lng, lat, mg) ==
  The({<< FxSub(FxMul(lng, Whole(2)), q[1]), FxSub(FxMul(lat, Whole(2)), q[2]) >> :
         q \in {mg}})

gcj02towgs84(lng, lat) ==
  IF out_of_china(lng, lat) THEN Pair("identity", <<lng, lat>>)
  ELSE Pair("formula", mirrored(lng, lat, mars(lng, lat)))

\* 0.00002 and 0.000003
RadiusTerm == Num(0, 0, 2000, 0)

AngleTerm == Num(0, 0, 300, 0)

\* [z * cos(theta), z * sin(theta)] plus the offsets
polarOf(z, theta, dx, dy) ==
  << FxAdd(FxMul(z, MathCos(theta)), dx), FxAdd(FxMul(z, MathSin(theta)), dy) >>

\* The same, of the values of z and theta.
polar(z, theta, dx, dy) == The({polarOf(a, b, dx, dy) : a \in {z}, b \in {theta}})

Zero == Num(0, 0, 0, 0)

bd09from(x, y) ==
  polar(FxSub(MathSqrt(FxAdd(FxMul(x, x), FxMul(y, y))),
              FxMul(RadiusTerm, MathSin(FxMul(y, X_PI)))),
        FxSub(MathAtan2(y, x), FxMul(AngleTerm, MathCos(FxMul(x, X_PI)))),
        Zero, Zero)

\* The conversion as it would be with the test of out_of_china.
guardedBd09(lng, lat) ==
  IF out_of_china(lng, lat) THEN Pair("identity", <<lng, lat>>)
  ELSE Pair("formula",
            bd09from(FxSub(lng, Num(0, 65, 0, 0)), FxSub(lat, Num(0, 60, 0, 0))))

bd09togcj02(lng, lat) ==
  Pair("formula", bd09from(FxSub(lng, Num(0, 65, 0, 0)), FxSub(lat, Num(0, 60, 0, 0))))

\* The conversion without the offsets 0.0065 and 0.006.
withoutOffsets(lng, lat) ==
  Pair("formula",
       polar(FxAdd(MathSqrt(FxAdd(FxMul(lng, lng), FxMul(lat, lat))),
                   FxMul(RadiusTerm, MathSin(FxMul(lat, X_PI)))),
             FxAdd(MathAtan2(lat, lng), FxMul(AngleTerm, MathCos(FxMul(lng, X_PI)))),
             Zero, Zero))

gcj02tobd09(lng, lat) ==
  Pair("formula",
       polar(FxAdd(MathSqrt(FxAdd(FxMul(lng, lng), FxMul(lat, lat))),
                   FxMul(RadiusTerm, MathSin(FxMul(lat, X_PI)))),
             FxAdd(MathAtan2(lat, lng), FxMul(AngleTerm, MathCos(FxMul(lng, X_PI)))),
             Num(0, 65, 0, 0), Num(0, 60, 0, 0)))

\* ------------------------------------------------ coordtransform, calls

\* The longitudes and latitudes of the calls: the edges of the box of
\* out_of_china and their neighbours, places inside and places outside.
Lngs ==
  { Zero, FxNeg(Num(74, 60, 0, 0)), Num(73, 6600, 0, 0), Num(73, 6700, 0, 0),
    Num(116, 3971, 2800, 0), Num(121, 4737, 0, 0), Num(135, 500, 0, 0) }

Lats ==
  { Zero, Num(3, 8600, 0, 0), Num(3, 8700, 0, 0), Num(31, 2304, 0, 0),
    Num(39, 9165, 2700, 0), Num(53, 5500, 0, 0) }

Points == {<<lng, lat>> : lng \in Lngs, lat \in Lats}

InitCoord ==
  /\ pc = "call"
  /\ fn = "none"
  /\ out = NoOut
  /\ NoOther
  /\ NoChinese
  /\ point \in Points
  /\ origin = <<>>
  /\ NoLater

\* A call of f on the point: its result.
Call(f, result) ==
  /\ pc = "call"
  /\ pc' = "done"
  /\ fn' = f
  /\ out' = Value(result)
  /\ UNCHANGED <<otherVars, chineseVars, coordVars, laterVars>>

OutOfChina == Call("out_of_china", out_of_china(point[1], point[2]))

Wgs84ToGcj02 == Call("wgs84togcj02", wgs84togcj02(point[1], point[2]))

Gcj02ToWgs84 == Call("gcj02towgs84", gcj02towgs84(point[1], point[2]))

Bd09ToGcj02 == Call("bd09togcj02", bd09togcj02(point[1], point[2]))

Gcj02ToBd09 == Call("gcj02tobd09", gcj02tobd09(point[1], point[2]))

Conversions == {"wgs84togcj02", "gcj02towgs84", "bd09togcj02", "gcj02tobd09"}

\* The caller passes the pair a conversion returned to the next call.
Feed ==
  /\ pc = "done"
  /\ fn \in Conversions
  /\ origin = <<>>
  /\ origin' = <<[fn |-> fn, point |-> point]>>
  /\ point' = <<out.val.lng, out.val.lat>>
  /\ pc' = "call"
  /\ fn' = "none"
  /\ out' = NoOut
  /\ UNCHANGED <<otherVars, chineseVars, laterVars>>

NextCoord ==
  \/ OutOfChina
  \/ Wgs84ToGcj02
  \/ Gcj02ToWgs84
  \/ Bd09ToGcj02
  \/ Gcj02ToBd09
  \/ Feed

SpecCoord == InitCoord /\ [][NextCoord]_vars

\* ------------------------------------------------------- deviceDetection
\*
\* A user agent is a string, the sequence of its characters.  A regular
\* expression of the source is an alternation of words (and one word with a
\* negative lookahead) under the flag i: it matches when one of its words
\* stands somewhere in the string, letter case apart.

Undefined == [kind |-> "undefined"]

upperCase == <<"A", "B", "C", "D", "E", "I", "L", "M", "O", "P", "S", "T", "W", "Y">>

lowerCase == <<"a", "b", "c", "d", "e", "i", "l", "m", "o", "p", "s", "t", "w", "y">>

\* The lower-case letter of every upper-case letter.
lowerOf ==
  [c \in {upperCase[i] : i \in 1..Len(upperCase)} |->
    lowerCase[CHOOSE i \in 1..Len(upperCase) : upperCase[i] = c]]

\* The letter c with its case folded, as the flag i compares letters.
Lower(c) == IF c \in DOMAIN lowerOf THEN lowerOf[c] ELSE c

Android == <<"A", "n", "d", "r", "o", "i", "d">>

webOS == <<"w", "e", "b", "O", "S">>

iPhone == <<"i", "P", "h", "o", "n", "e">>

iPad == <<"i", "P", "a", "d">>

iPod == <<"i", "P", "o", "d">>

BlackBerry == <<"B", "l", "a", "c", "k", "B", "e", "r", "r", "y">>

IEMobile == <<"I", "E", "M", "o", "b", "i", "l", "e">>

OperaMini == <<"O", "p", "e", "r", "a", " ", "M", "i", "n", "i">>

Mobile == <<"M", "o", "b", "i", "l", "e">>

Tablet == <<"T", "a", "b", "l", "e", "t">>

PlayBook == <<"P", "l", "a", "y", "B", "o", "o", "k">>

Silk == <<"S", "i", "l", "k">>

\* The word stands in s from the position i on.
MatchesAt(word, s, i) ==
  /\ i + Len(word) - 1 <= Len(s)
  /\ \A k \in 1..Len(word) : Lower(s[i + k - 1]) = Lower(word[k])

Occurs(word, s) == \E i \in 1..Len(s) : MatchesAt(word, s, i)

\* /Android|webOS|iPhone|iPad|iPod|BlackBerry|IEMobile|Opera Mini/i.test(ua)
mobileRegex(ua) ==
  \E word \in {Android, webOS, iPhone, iPad, iPod, BlackBerry, IEMobile,
               OperaMini} : Occurs(word, ua)

\* (?!.*Mobile) at the position i: no Mobile stands at i or further on in
\* the line (the dot matches no line terminator).
NoMobileFrom(ua, i) ==
  ~\E j \in i..Len(ua) :
     /\ MatchesAt(Mobile, ua, j)
     /\ \A k \in i..(j - 1) : ua[k] # "\n"

\* /iPad|Android(?!.*Mobile)|Tablet|PlayBook|Silk/i.test(ua)
tabletRegex(ua) ==
  \/ \E word \in {iPad, Tablet, PlayBook, Silk} : Occurs(word, ua)
  \/ \E i \in 1..Len(ua) :
       MatchesAt(Android, ua, i) /\ NoMobileFrom(ua, i + Len(Android))

\* const ua = userAgent || (typeof navigator !== 'undefined' ? ... : '')
uaOf(agent, nav) ==
  IF agent # Undefined /\ agent.chars # <<>> THEN agent.chars
  ELSE IF nav # Undefined THEN nav.userAgent.chars
  ELSE <<>>

\* The mutation of deviceTypeOf that tests the mobile pattern first.
mobileFirst(isTabletDevice, isMobileDevice) ==
  IF isMobileDevice THEN "mobile"
  ELSE IF isTabletDevice THEN "tablet"
  ELSE "pc"

\* The if of lines 47-53.
deviceTypeOf(isTabletDevice, isMobileDevice) ==
  IF isTabletDevice THEN "tablet"
  ELSE IF isMobileDevice THEN "mobile"
  ELSE "pc"

detectionResult(deviceType, ua) ==
  [type |-> deviceType,
   isPC |-> deviceType = "pc",
   isMobile |-> deviceType = "mobile",
   isTablet |-> deviceType = "tablet",
   userAgent |-> Str(ua)]

detect(ua) == detectionResult(deviceTypeOf(tabletRegex(ua), mobileRegex(ua)), ua)

deviceDetection(agent, nav) == detect(uaOf(agent, nav))

isMobileDevice(agent, nav) ==
  deviceDetection(agent, nav).isMobile \/ deviceDetection(agent, nav).isTablet

isPCDevice(agent, nav) == deviceDetection(agent, nav).isPC

\* ------------------------------------------------ deviceDetection, calls
\*
\* A call draws the argument, undefined or a string of at most MaxWords of
\* the words below, and the navigator of the environment, absent or with a
\* user agent of its own.
MaxWords == 3

Words ==
  {<<" ">>, <<"\n">>, Android, Mobile, <<"i", "P", "A", "D">>, iPhone,
   IEMobile, Tablet, <<"W", "i", "n", "d", "o", "w", "s">>}

RECURSIVE Phrases(_)
Phrases(n) ==
  IF n = 0 THEN {<<>>}
  ELSE Phrases(n - 1) \cup {p \o w : p \in Phrases(n - 1), w \in Words}

Navigators ==
  {Undefined, [userAgent |-> Str(Android \o <<" ">> \o Mobile)],
   [userAgent |-> Str(<<"W", "i", "n", "d", "o", "w", "s">>)]}

InitDevice ==
  /\ pc = "call"
  /\ fn = "none"
  /\ out = NoOut
  /\ NoneBesidesDevice
  /\ userAgent \in {Undefined} \cup {Str(p) : p \in Phrases(MaxWords)}
  /\ navigator \in Navigators

deviceCall(f, result) ==
  /\ pc = "call"
  /\ pc' = "done"
  /\ fn' = f
  /\ out' = Value(result)
  /\ UNCHANGED <<deviceVars, besidesDevice>>

DeviceDetection == deviceCall("deviceDetection", deviceDetection(userAgent, navigator))

IsMobileDevice == deviceCall("isMobileDevice", isMobileDevice(userAgent, navigator))

IsPCDevice == deviceCall("isPCDevice", isPCDevice(userAgent, navigator))

NextDevice == DeviceDetection \/ IsMobileDevice \/ IsPCDevice

SpecDevice == InitDevice /\ [][NextDevice]_vars

\* ------------------------------------------------------ priceToThousands
\*
\* The amount is a decimal [m, p]; an optional value is <<>> when absent and
\* <<v>> when given.  The double of a decimal lies on the decimal only when
\* the decimal is a multiple of a power of two: where toFixed meets a tie of
\* the decimal, the double is beside it, to the side the call draws.

\* const { digit = 0, round = false } = options || {}
optionOf(opts, name, default) ==
  IF opts = <<>> \/ opts[1][name] = <<>> THEN default
  ELSE opts[1][name][1]

\* The digits ds, with zeros before them to make k digits or more.
PadStart(ds, k) == IF Len(ds) >= k THEN ds ELSE [i \in 1..(k - Len(ds)) |-> 0] \o ds

\* The characters of the integer n read with s fractional digits, and zeros
\* after them up to d fractional digits.
fixedChars(n, s, d) ==
  DigitChars(SubSeq(PadStart(Digits(n), s + 1), 1, Len(PadStart(Digits(n), s + 1)) - s))
  \o (IF d > 0
      THEN <<".">>
           \o DigitChars(SubSeq(PadStart(Digits(n), s + 1),
                                Len(PadStart(Digits(n), s + 1)) - s + 1,
                                Len(PadStart(Digits(n), s + 1))))
           \o Zeros(d - s)
      ELSE <<>>)

\* Number.prototype.toFixed(d), 0 <= d, of the double of the decimal x: the
\* integer n with n / 10^d nearest to the double, the larger one of two.
toFixed(x, d, drift) ==
  (IF x.m < 0 THEN <<"-">> ELSE <<>>)
  \o (IF x.p <= d THEN fixedChars(Abs(x.m), x.p, d)
      ELSE fixedChars(RoundDiv(Abs(x.m), Pow10(x.p - d), drift), d, d))

IsDigitChar(c) == c \in {"0", "1", "2", "3", "4", "5", "6", "7", "8", "9"}

\* \w
IsWordChar(c) == IsDigitChar(c) \/ c \in {"e", "I", "n", "f", "i", "t", "y", "N", "a"}

\* The number of digits that stand in str from the position j on.
DigitRun(str, j) ==
  Cardinality({k \in j..Len(str) : \A i \in j..k : IsDigitChar(str[i])})

\* \B(?=(\d{3})+(?!\d)) before the character j of str: no word boundary, and
\* a multiple of three digits up to the first character that is no digit.
CommaBefore(str, j) ==
  /\ j > 1 /\ IsWordChar(str[j - 1]) = IsWordChar(str[j])
  /\ DigitRun(str, j) > 0 /\ DigitRun(str, j) % 3 = 0

\* str.replace(/\B(?=(\d{3})+(?!\d))/g, ',')
RECURSIVE withCommas(_, _)
withCommas(str, j) ==
  IF j > Len(str) THEN <<>>
  ELSE (IF CommaBefore(str, j) THEN <<",", str[j]>> ELSE <<str[j]>>)
       \o withCommas(str, j + 1)

\* parts.join('.')
RECURSIVE JoinDot(_)
JoinDot(parts) ==
  IF Len(parts) = 1 THEN parts[1] ELSE parts[1] \o <<".">> \o JoinDot(Tail(parts))

\* parts[0] = ...; return parts.join('.')
commaParts(parts) == JoinDot(<<withCommas(parts[1], 1)>> \o Tail(parts))

\* value: the amount, rounded when round && digit > 0.  An amount of no more
\* than digit fractional digits times the multiplier is an integer, which
\* Math.round keeps and the division turns back into the amount.
roundedAmount(amt, digit, round, drift) ==
  IF round /\ digit > 0 /\ digit < amt.p THEN RoundDec(amt, digit, drift)
  ELSE amt

\* fixed
fixedOf(v, digit, drift) ==
  IF digit >= 0 THEN toFixed(v, digit, drift) ELSE NumberToString(Sci(v))

priceToThousands(amt, opts, drift) ==
  commaParts(SplitDot(fixedOf(roundedAmount(amt, optionOf(opts, "digit", 0),
                                            optionOf(opts, "round", FALSE),
                                            drift.r),
                              optionOf(opts, "digit", 0), drift.o)))

\* ----------------------------------------------- priceToThousands, calls
MaxAmountMantissa == 25

MaxAmountPlaces == 3

MaxDigit == 3

ExampleMantissas == {1005, 1567, 123456, 999995, 1234567, -1234567, 1234567567}

ThousandsAmounts ==
  {D(m, p) : m \in {k \in (-MaxAmountMantissa..MaxAmountMantissa) \cup ExampleMantissas :
                     k % 10 # 0},
             p \in 0..MaxAmountPlaces}
  \cup {D(0, 0), D(10, 0), D(1000, 0), D(1234000, 0)}

AmountOpts ==
  {<<>>} \cup {<<[digit |-> d, round |-> r]>> :
                d \in {<<>>} \cup {<<k>> : k \in (-1)..MaxDigit},
                r \in {<<>>, <<FALSE>>, <<TRUE>>}}

RECURSIVE Pow5(_)
Pow5(k) == IF k <= 0 THEN 1 ELSE 5 * Pow5(k - 1)

\* The decimal x has fractional digits after the d-th that are exactly a
\* half of the d-th place.
OnTie(x, d) == x.p > d /\ d >= 0 /\ HalfWay(Abs(x.m), Pow10(x.p - d))

\* Where the double of the amount (o) and the double of amount * multiplier
\* (r) lie on a tie: a decimal that is a multiple of 2^-p is its double.
TiesFor(amt, opts) ==
  IF ~OnTie(amt, optionOf(opts, "digit", 0)) THEN {NoMu}
  ELSE [o : IF amt.m % Pow5(amt.p) = 0 THEN {0} ELSE {-1, 1}, r : Drift]

InitThousands ==
  /\ pc = "call"
  /\ fn = "none"
  /\ out = NoOut
  /\ NoneBesidesThousands
  /\ amount \in ThousandsAmounts
  /\ options \in AmountOpts
  /\ tie \in TiesFor(amount, options)

PriceToThousands ==
  /\ pc = "call"
  /\ pc' = "done"
  /\ fn' = "priceToThousands"
  /\ out' = Value(priceToThousands(amount, options, tie))
  /\ UNCHANGED <<thousandsVars, besidesThousands>>

NextThousands == PriceToThousands

SpecThousands == InitThousands /\ [][NextThousands]_vars

\* ---------------------------------------------------------- randomDivide
\*
\* Math.random() * remaining is a multiple of 1 / Grain in [0, remaining):
\* a split point is kept as its numerator.  The arrays are sequences, the
\* index of the source being one less than the position; divided is the
\* array result of the source, numParts its parameter parts and turn the
\* position of the loop over indices.
Grain == 2

\* The values Math.random() * remaining can take.
randomSplits(remaining) ==
  IF remaining = 0 THEN {0} ELSE 0..(remaining * Grain - 1)

\* Math.max(0, minPerPart)
validMinOf(opts) == Max(0, optionOf(opts, "minPerPart", 0))

\* maxPerPart !== undefined ? Math.min(maxPerPart, total) : total
validMaxOf(opts, tot) ==
  IF opts = <<>> \/ opts[1].maxPerPart = <<>> THEN tot
  ELSE Min(opts[1].maxPerPart[1], tot)

\* The tests that return [] before the distribution.
cannotDivide(tot, n, opts) ==
  \/ tot <= 0 \/ n <= 0
  \/ validMinOf(opts) > validMaxOf(opts, tot)
  \/ validMinOf(opts) * n > tot

\* splits.sort((a, b) => a - b)
Ascending(s) == SortSeq(s, LAMBDA a, b : a < b)

\* shuffled.sort((a, b) => b - a)
Descending(s) == SortSeq(s, LAMBDA a, b : a > b)

\* The value of the part i: the whole of the distance between its split and
\* the one before, above the minimum and capped by the maximum.
partValue(sp, i, lo, hi) ==
  Min(hi, ((sp[i] - (IF i = 1 THEN 0 ELSE sp[i - 1])) \div Grain) + lo)

\* result.reduce((sum, val) => sum + val, 0)
RECURSIVE SumOf(_)
SumOf(s) == IF s = <<>> THEN 0 ELSE s[1] + SumOf(Tail(s))

\* The arrays knuthShuffle can return for the array s: its permutations.
Shuffles(s) ==
  {[i \in 1..Len(s) |-> s[p[i]]] :
     p \in {q \in [1..Len(s) -> 1..Len(s)] :
              \A i, j \in 1..Len(s) : q[i] = q[j] => i = j}}

\* The return value for the shuffled array.
ordered(shuffled, opts) ==
  IF optionOf(opts, "order", "random") = "asc" THEN Ascending(shuffled)
  ELSE IF optionOf(opts, "order", "random") = "desc" THEN Descending(shuffled)
  ELSE shuffled

\* --------------------------------------------------- randomDivide, calls
MaxTotal == 4

MaxParts == 3

DivideOpts ==
  {<<>>} \cup {<<[minPerPart |-> lo, maxPerPart |-> hi, order |-> o]>> :
                lo \in {<<>>, <<-1>>, <<1>>, <<2>>},
                hi \in {<<>>, <<0>>, <<1>>, <<3>>},
                o \in {<<>>, <<"asc">>, <<"desc">>}}

InitDivide ==
  /\ pc = "call"
  /\ fn = "none"
  /\ out = NoOut
  /\ NoneBesidesDivide
  /\ total \in 0..MaxTotal
  /\ numParts \in 0..MaxParts
  /\ divideOptions \in DivideOpts
  /\ splits = <<>>
  /\ divided = <<>>
  /\ diff = 0
  /\ turn = 0

\* Lines 290-313: the tests, and the empty arrays.
RandomDivide ==
  /\ pc = "call"
  /\ fn' = "randomDivide"
  /\ IF cannotDivide(total, numParts, divideOptions)
     THEN pc' = "done" /\ out' = Value(<<>>)
     ELSE pc' = "split" /\ out' = out
  /\ UNCHANGED <<divideVars, besidesDivide>>

\* Lines 316-318, one turn of the loop.
PushSplit ==
  /\ pc = "split"
  /\ Len(splits) < numParts - 1
  /\ \E k \in randomSplits(total - validMinOf(divideOptions) * numParts) :
       splits' = Append(splits, k)
  /\ UNCHANGED <<pc, fn, out, total, numParts, divideOptions, divided, diff, turn,
                 besidesDivide>>

\* The parts for the split points sp.
partsFor(sp, n, opts, tot) ==
  [i \in 1..n |-> partValue(sp, i, validMinOf(opts), validMaxOf(opts, tot))]

\* Lines 319-338: the split points sorted and closed by remaining, the loop
\* that assigns the parts, and the difference left.
Assign ==
  /\ pc = "split"
  /\ Len(splits) = numParts - 1
  /\ splits' = Append(Ascending(splits),
                      (total - validMinOf(divideOptions) * numParts) * Grain)
  /\ divided' = partsFor(splits', numParts, divideOptions, total)
  /\ diff' = total - SumOf(divided')
  /\ turn' = 0
  /\ pc' = "adjust"
  /\ UNCHANGED <<fn, out, total, numParts, divideOptions, besidesDivide>>

\* What the turn of the loop of lines 345-363 adds to result[index].
adjustment(v, d, lo, hi) ==
  IF d > 0 THEN Max(0, Min(hi - v, d)) ELSE -Max(0, Min(v - lo, -d))

\* Lines 340-363, one turn of the loop over indices, which knuthShuffle has
\* left in order (it shuffles a copy).
Adjust ==
  /\ pc = "adjust"
  /\ diff # 0 /\ turn < numParts
  /\ divided' = [divided EXCEPT ![turn + 1] =
                  @ + adjustment(@, diff, validMinOf(divideOptions),
                                 validMaxOf(divideOptions, total))]
  /\ diff' = diff - (divided'[turn + 1] - divided[turn + 1])
  /\ turn' = turn + 1
  /\ UNCHANGED <<pc, fn, out, total, numParts, divideOptions, splits, besidesDivide>>

\* Lines 366-377: the shuffle and the order.
Shuffle ==
  /\ pc = "adjust"
  /\ diff = 0 \/ turn = numParts
  /\ \E shuffled \in Shuffles(divided) :
       out' = Value(ordered(shuffled, divideOptions))
  /\ pc' = "done"
  /\ UNCHANGED <<fn, divideVars, besidesDivide>>

NextDivide == RandomDivide \/ PushSplit \/ Assign \/ Adjust \/ Shuffle

SpecDivide == InitDivide /\ [][NextDivide]_vars

\* ------------------------------------------- banMouseEvent, allowMouseEvent
\*
\* The registry eventHandlers maps an event type to <<>> (no entry) or to
\* <<handler>>.  A handler is the closure that one turn of banMouseEvent's
\* forEach creates: [type, serial], the serial-th closure made for the type.
\* listeners is the set of the capture listeners <<type, handler>> that the
\* document carries; created counts the closures made per type.  A list
\* argument is [kind |-> "array", items], anything else is no array.
EventTypes == {"contextmenu", "selectstart", "copy"}

Arr(items) == [kind |-> "array", items |-> items]

\* !Array.isArray(eventList) || eventList.length === 0
noList(list) == list.kind # "array" \/ list.items = <<>>

\* typeof document === 'undefined', or the test of the list: the calls that
\* return after a warning.
returnsAtOnce(doc, list) == doc = "undefined" \/ noList(list)

\* The mutation of withoutListener that removes nothing.
keepListener(ls, type, entry) == ls

\* document.removeEventListener(type, handler, true) for the handler of the
\* registry entry, if there is one.
withoutListener(ls, type, entry) ==
  IF entry = <<>> THEN ls ELSE ls \ {<<type, entry[1]>>}

\* document.addEventListener(type, handler, true)
withListener(ls, type, handler) == ls \cup {<<type, handler>>}

\* The mutation of withoutEntry that keeps the entry.
keepEntry(registry, type) == registry

\* eventHandlers.delete(type)
withoutEntry(registry, type) == [registry EXCEPT ![type] = <<>>]

\* eventHandlers.set(type, handler)
withEntry(registry, type, handler) == [registry EXCEPT ![type] = <<handler>>]

\* ----------------------------------- banMouseEvent, allowMouseEvent, calls
MaxList == 2

MaxBans == 2

RECURSIVE ListsUpTo(_)
ListsUpTo(n) ==
  IF n = 0 THEN {<<>>}
  ELSE ListsUpTo(n - 1)
       \cup {Append(l, t) : l \in ListsUpTo(n - 1), t \in EventTypes}

EventLists == {Undefined} \cup {Arr(l) : l \in ListsUpTo(MaxList)}

\* The number of times the type stands in the list.
Occurrences(items, type) == Cardinality({i \in 1..Len(items) : items[i] = type})

InitMouse ==
  /\ pc = "call"
  /\ fn = "none"
  /\ out = NoOut
  /\ NoneBesidesMouse
  /\ document \in {"undefined", "document"}
  /\ eventHandlers = [t \in EventTypes |-> <<>>]
  /\ listeners = {}
  /\ created = [t \in EventTypes |-> 0]
  /\ eventList = Undefined
  /\ nth = 0

\* A call of f with the list: the tests of the document and of the list.
mouseCall(f, list) ==
  /\ pc \in {"call", "done"}
  /\ fn' = f
  /\ eventList' = list
  /\ nth' = 0
  /\ pc' = IF returnsAtOnce(document, list) THEN "done" ELSE "forEach"
  /\ UNCHANGED <<out, document, eventHandlers, listeners, created, besidesMouse>>

BanMouseEvent ==
  \E list \in EventLists :
    /\ list.kind = "array" =>
         \A t \in EventTypes : created[t] + Occurrences(list.items, t) <= MaxBans
    /\ mouseCall("banMouseEvent", list)

AllowMouseEvent == \E list \in EventLists : mouseCall("allowMouseEvent", list)

\* One turn of the forEach of banMouseEvent, for the type and a new handler.
banTurn(type, handler) ==
  /\ listeners' = withListener(withoutListener(listeners, type, eventHandlers[type]),
                               type, handler)
  /\ eventHandlers' = withEntry(eventHandlers, type, handler)
  /\ created' = [created EXCEPT ![type] = @ + 1]

BanEach ==
  /\ pc = "forEach" /\ fn = "banMouseEvent"
  /\ nth < Len(eventList.items)
  /\ banTurn(eventList.items[nth + 1],
             [type |-> eventList.items[nth + 1],
              serial |-> created[eventList.items[nth + 1]] + 1])
  /\ nth' = nth + 1
  /\ UNCHANGED <<pc, fn, out, document, eventList, besidesMouse>>

\* One turn of the forEach of allowMouseEvent.
allowTurn(type) ==
  /\ listeners' = withoutListener(listeners, type, eventHandlers[type])
  /\ eventHandlers' = IF eventHandlers[type] = <<>> THEN eventHandlers
                      ELSE withoutEntry(eventHandlers, type)

AllowEach ==
  /\ pc = "forEach" /\ fn = "allowMouseEvent"
  /\ nth < Len(eventList.items)
  /\ allowTurn(eventList.items[nth + 1])
  /\ nth' = nth + 1
  /\ UNCHANGED <<pc, fn, out, document, eventList, created, besidesMouse>>

\* The end of the forEach.
ReturnMouse ==
  /\ pc = "forEach"
  /\ nth = Len(eventList.items)
  /\ pc' = "done"
  /\ UNCHANGED <<fn, out, mouseVars, besidesMouse>>

NextMouse ==
  BanMouseEvent \/ AllowMouseEvent \/ BanEach \/ AllowEach \/ ReturnMouse

SpecMouse == InitMouse /\ [][NextMouse]_vars

\* ------------------------------------------- createStorage, storageLocal
\*
\* A JavaScript value is a record with a kind; an object has the one optional
\* property a, <<>> when it is missing.  A JSON text is a sequence of
\* characters.  localStorage maps a key to <<>> (null) or to <<text>>.
JsNumber(n) == [kind |-> "number", n |-> n]

JsNaN == [kind |-> "NaN"]

JsNull == [kind |-> "null"]

JsBigInt(n) == [kind |-> "bigint", n |-> n]

JsObject(a) == [kind |-> "object", a |-> a]

NullText == <<"n", "u", "l", "l">>

Quote == "'"

\* JSON.stringify of a value that is no object: NaN is written as null,
\* undefined has no text, a BigInt raises a TypeError.
stringifyPlain(v) ==
  CASE v.kind = "number" -> Str(DigitChars(Digits(v.n)))
    [] v.kind \in {"NaN", "null"} -> Str(NullText)
    [] v.kind = "string" -> Str(<<Quote>> \o v.chars \o <<Quote>>)
    [] v.kind = "undefined" -> Undefined
    [] v.kind = "bigint" -> Throw("TypeError")

\* The text of the object with the text of its property: a property without
\* a text is left out, an error of the property is the error of the object.
objectText(inner) ==
  CASE inner.kind = "throw" -> inner
    [] inner.kind = "undefined" -> Str(<<"{", "}">>)
    [] OTHER -> Str(<<"{", Quote, "a", Quote, ":">> \o inner.chars \o <<"}">>)

\* JSON.stringify(v)
JSONstringify(v) ==
  IF v.kind # "object" THEN stringifyPlain(v)
  ELSE IF v.a = <<>> THEN Str(<<"{", "}">>)
  ELSE objectText(stringifyPlain(v.a[1]))

MaxNumber == 2

\* The values that a JSON text can denote.
JsonPlain ==
  {JsNumber(n) : n \in 0..MaxNumber} \cup {JsNull}
    \cup {Str(s) : s \in {<<>>, <<"a">>, <<"1">>}}

JsonValues == JsonPlain \cup {JsObject(<<>>)} \cup {JsObject(<<p>>) : p \in JsonPlain}

\* JSON.parse(text): the value that the text denotes, a SyntaxError for a
\* text that denotes none.
JSONparse(text) ==
  IF \E v \in JsonValues : JSONstringify(v) = Str(text)
  THEN CHOOSE v \in JsonValues : JSONstringify(v) = Str(text)
  ELSE Throw("SyntaxError")

\* String(value) of the second argument of storage.setItem.
storedText(text) ==
  IF text.kind = "undefined" THEN <<"u", "n", "d", "e", "f", "i", "n", "e", "d">>
  ELSE text.chars

\* setItem of createStorage on the storage: an error of JSON.stringify or of
\* storage.setItem (the quota is exceeded) is caught and nothing is stored.
withItem(store, k, text, exceeded) ==
  IF text.kind = "throw" \/ exceeded THEN store
  ELSE [store EXCEPT ![k] = <<storedText(text)>>]

parsedOrUndefined(parsed) == IF parsed.kind = "throw" THEN Undefined ELSE parsed

\* getItem of createStorage: undefined without a storage, for a key without
\* an item and for an item that JSON.parse rejects.
getItem(win, store, k) ==
  IF win = "undefined" \/ store[k] = <<>> THEN Undefined
  ELSE parsedOrUndefined(JSONparse(store[k][1]))

\* ------------------------------------ createStorage, storageLocal, calls
StorageKeys == {"info", "token"}

StorageValues ==
  {JsNumber(1), JsNumber(2), JsNaN, JsNull, Str(<<"a">>), Undefined, JsBigInt(1),
   JsObject(<<>>), JsObject(<<JsNumber(1)>>), JsObject(<<Undefined>>),
   JsObject(<<JsBigInt(1)>>)}

InitStorage ==
  /\ pc = "call"
  /\ fn = "none"
  /\ out = NoOut
  /\ NoneBesidesStorage
  /\ window \in {"undefined", "window"}
  /\ localStorage = [k \in StorageKeys |-> <<>>]
  /\ itemKey = <<>>
  /\ itemValue = <<>>

\* storageLocal().f(...) with the arguments, the storage after it and the
\* value it returns.
storageCall(f, k, v, store, result) ==
  /\ pc \in {"call", "done"}
  /\ pc' = "done"
  /\ fn' = f
  /\ itemKey' = k
  /\ itemValue' = v
  /\ localStorage' = IF window = "undefined" THEN localStorage ELSE store
  /\ out' = result
  /\ UNCHANGED <<window, besidesStorage>>

SetItem ==
  \E k \in StorageKeys, v \in StorageValues, exceeded \in BOOLEAN :
    storageCall("setItem", <<k>>, <<v>>,
                withItem(localStorage, k, JSONstringify(v), exceeded),
                Value(Undefined))

GetItem ==
  \E k \in StorageKeys :
    storageCall("getItem", <<k>>, <<>>, localStorage,
                Value(getItem(window, localStorage, k)))

RemoveItem ==
  \E k \in StorageKeys :
    storageCall("removeItem", <<k>>, <<>>, [localStorage EXCEPT ![k] = <<>>],
                Value(Undefined))

Clear ==
  storageCall("clear", <<>>, <<>>, [k \in StorageKeys |-> <<>>], Value(Undefined))

NextStorage == SetItem \/ GetItem \/ RemoveItem \/ Clear

SpecStorage == InitStorage /\ [][NextStorage]_vars

\* ------------------------------------------ numberToChinese, run to the end
\* The arguments of the calls that are followed to their end: the numbers
\* that are not finite and the strings that denote the infinities, the
\* examples, and one digit with zeros after it.
InfinityText == <<"I", "n", "f", "i", "n", "i", "t", "y">>

LiveArguments ==
  {NoVal} \cup NonFinite \cup ExampleNumbers \cup ExampleFractions
  \cup {Str(chars) : chars \in ExampleStrings}
  \cup {Str(InfinityText), Str(<<"-">> \o InfinityText)}
  \cup {A(neg, <<d>>, n) : neg \in BOOLEAN, d \in 1..2, n \in 1..MaxChinesePoint}

InitChineseLive ==
  /\ pc = "call"
  /\ fn = "none"
  /\ out = NoOut
  /\ NoOther
  /\ numArg \in LiveArguments
  /\ value = <<>>
  /\ segments = <<>>
  /\ NoCoord
  /\ NoLater

\* What the steps of the call do to pc: the entry (lines 287-306), the end of
\* the loop and the steps after it (lines 308, 315-390).
Enters == pc = "call" /\ pc' \in {"loop", "done"}

Leaves == pc = "loop" /\ ~IsPositive(value.value) /\ pc' = "done"

\* The call runs without suspension: a step that can be taken is taken.
SpecChineseLive ==
  /\ InitChineseLive /\ [][NextChinese]_vars
  /\ WF_pc(Enters)
  /\ WF_segments(SplitSegment)
  /\ WF_pc(Leaves)

\* ----------------------------------------------------- claims, arithmetic
Returned(f) == pc = "done" /\ fn = f

\* C1: divisionOperation(x, 0, decimal) throws the division-by-zero error for
\* every dividend x and every decimal argument, present or absent: the test
\* precedes the scaling and the rounding, and no number is returned.
C1_DivisionByZeroThrows ==
  (Returned("divisionOperation") /\ num2.m = 0)
    => out = Throw("Division by zero is not allowed")

C1_Witness ==
  /\ Returned("divisionOperation")
  /\ num2.m = 0
  /\ num1 = D(5, 7)
  /\ decimal = <<1>>
  /\ out.kind = "throw"

\* The exact decimal sum and product of two decimals.
ExactSum(a, b) ==
  Norm(a.m * Pow10(Max(a.p, b.p) - a.p) + b.m * Pow10(Max(a.p, b.p) - b.p),
       Max(a.p, b.p))

ExactProduct(a, b) == Norm(a.m * b.m, a.p + b.p)

\* C2: without a decimal argument, addition(a, b) is exactly the decimal sum
\* a + b, for any two decimals of a bounded number of fractional digits.
C2_AdditionIsExactSum ==
  (Returned("addition") /\ decimal = <<>>) => out = Value(ExactSum(num1, num2))

\* C3: addition(a, b) equals subtraction(a, -b), for all decimals a and b and
\* the same decimal argument (the doubles a * 10^q and -b * 10^q being those
\* of the addition, negated).
C3_AdditionIsSubtractionOfNegation ==
  Returned("addition") => out = subtraction(num1, Neg(num2), decimal, mu)

\* C4: without a decimal argument, multiplication(a, b) is exactly the
\* decimal product a * b, for any two decimals of a bounded number of
\* fractional digits.
C4_MultiplicationIsExactProduct ==
  (Returned("multiplication") /\ decimal = <<>>)
    => out = Value(ExactProduct(num1, num2))

\* v is a decimal of at most d places and a nearest one to the decimal r: a
\* tie that the double hits exactly (drift 0) goes to +Infinity.
NearestDec(v, r, d, drift) ==
  /\ v.p <= d
  /\ IF r.p <= d THEN v = r
     ELSE IF r.p - d > 9 THEN v.m = 0
     ELSE /\ 2 * Abs(v.m * Pow10(d - v.p) * Pow10(r.p - d) - r.m) <= Pow10(r.p - d)
          /\ (HalfWay(r.m, Pow10(r.p - d)) /\ drift = 0)
               => v.m * Pow10(d - v.p) * Pow10(r.p - d) > r.m

\* The same for the quotient q.n / q.d.
NearestRat(v, q, d, drift) ==
  /\ v.p <= d
  /\ 2 * Abs(v.m * Pow10(d - v.p) * q.d - q.n * Pow10(d)) <= q.d
  /\ (HalfWay((q.n % q.d) * Pow10(d), q.d) /\ drift = 0)
       => v.m * Pow10(d - v.p) * q.d > q.n * Pow10(d)

\* What the returned value is to the const `result` of the function.
RoundedAsAsked(v, result, dec, drift) ==
  IF dec = <<>> \/ dec[1] = 0 THEN v = result
  ELSE IF fn = "divisionOperation"
       THEN IF result.kind = "quotient"
            THEN v.kind = "decimal" /\ NearestRat(v.d, result.q, dec[1], drift)
            ELSE v = result
       ELSE NearestDec(v, result, dec[1], drift)

\* C5: each of the four functions returns its natural-scale result unchanged
\* when decimal is undefined or 0, and for decimal > 0 returns
\* round(result * 10^decimal) / 10^decimal: the result rounded to that many
\* places (divisionOperation(8.73, 2.16, 2) is 4.04).
C5_DecimalRoundsResult ==
  (pc = "done" /\ fn \in {"addition", "subtraction", "multiplication",
                          "divisionOperation"} /\ out.kind = "value")
    => RoundedAsAsked(out.val, resultOf(fn, num1, num2, mu), decimal, mu.r)

C5_Witness ==
  /\ Returned("divisionOperation")
  /\ num1 = D(873, 2)
  /\ num2 = D(216, 2)
  /\ decimal = <<2>>
  /\ out = Value([kind |-> "decimal", d |-> D(404, 2)])

\* -------------------------------------------------- claims, priceUppercase
\* A call of either version that returned a string.
Priced ==
  pc = "done" /\ fn \in {"priceUppercase", "priceUppercaseFixed"}
              /\ out.kind = "value"

IsInteger(v) == v.ds # <<>> /\ v.n >= Len(v.ds)

\* The digit of the amount at 10^j.
PlaceDigit(v, j) ==
  IF j < v.n /\ v.n - j <= Len(v.ds) THEN v.ds[v.n - j] ELSE 0

\* The digits of the integer part, and those after the point.
IntDigits(v) == [i \in 1..Max(v.n, 0) |-> PlaceDigit(v, v.n - i)]

FracDigits(v) ==
  [i \in 1..Max(Len(v.ds) - v.n, 0) |->
     IF i + v.n >= 1 THEN v.ds[i + v.n] ELSE 0]

SignOf(v) == IF v.neg THEN <<"fu">> ELSE <<>>

Without(sq, c) == SelectSeq(sq, LAMBDA t : t # c)

Keep(sq, S) == SelectSeq(sq, LAMBDA t : t \in S)

\* C6: for a nonzero amount the result is the optional fu, the integer
\* numeral and yuan iff the integer part is nonzero, then the fractional
\* numeral if there is one, otherwise the suffix iff the integer part is
\* nonzero.
C6_Composition ==
  (Priced /\ val.ds # <<>>)
    => out.val =
         SignOf(val)
         \o (IF val.n > 0
             THEN convertInteger(DigitChars(IntDigits(val))) \o <<"yuan">>
             ELSE <<>>)
         \o (IF convertDecimal(DigitChars(FracDigits(val))) # <<>>
             THEN convertDecimal(DigitChars(FracDigits(val)))
             ELSE IF val.n > 0 THEN format ELSE <<>>)

GroupNonzero(v, g) == \E j \in (4 * g)..(4 * g + 3) : PlaceDigit(v, j) # 0

\* One digit with its unit; bare says whether a tens digit 1 is the unit alone.
RenderDigit(d, pos, bare) ==
  IF d = 0 THEN <<>>
  ELSE IF d = 1 /\ pos = 1 /\ bare THEN <<"shi">>
  ELSE <<upperCaseNums[d + 1]>> \o units[pos + 1]

RenderGroup(v, g, bare) ==
  RenderDigit(PlaceDigit(v, 4 * g + 3), 3, bare)
  \o RenderDigit(PlaceDigit(v, 4 * g + 2), 2, bare)
  \o RenderDigit(PlaceDigit(v, 4 * g + 1), 1, bare)
  \o RenderDigit(PlaceDigit(v, 4 * g), 0, bare)

GroupWithUnit(v, g, bare) ==
  IF GroupNonzero(v, g) THEN RenderGroup(v, g, bare) \o bigUnits[g + 1]
  ELSE <<>>

GroupsRendered(v, bare) ==
  GroupWithUnit(v, 2, bare[2]) \o GroupWithUnit(v, 1, bare[1])
  \o GroupWithUnit(v, 0, bare[0])

\* C7: for an integer amount below 10^12 the numeral is, the ling left out,
\* the groups of four digits from the most significant down: each group with
\* a nonzero digit rendered and followed by its big unit (none, WAN, YI), a
\* group of zeros contributing nothing (1000 gives yi qian yuan zheng).  How
\* a tens digit 1 is written is left open here.
C7_GroupsAndBigUnits ==
  (Priced /\ IsInteger(val) /\ val.n <= 12)
    => \E bare \in [0..2 -> BOOLEAN] :
         Without(out.val, "ling")
           = SignOf(val) \o GroupsRendered(val, bare) \o <<"yuan">> \o format

C7_Witness ==
  /\ Priced
  /\ val = A(FALSE, <<1, 2, 3, 4, 5, 6, 7>>, 7)
  /\ out.val = <<"yi", "bai", "er", "shi", "san", "WAN",
                 "si", "qian", "wu", "bai", "liu", "shi", "qi",
                 "yuan", "zheng">>

\* The ling and the units of the numeral that the digits from 10^j down ask
\* for: a ling before a nonzero digit that follows zeros that follow a
\* nonzero digit, each nonzero digit's unit, each nonzero group's big unit.
RECURSIVE ZeroAndUnitsFrom(_, _, _, _)
ZeroAndUnitsFrom(v, j, seen, gap) ==
  IF j < 0 THEN <<>>
  ELSE (IF PlaceDigit(v, j) # 0
        THEN (IF seen /\ gap THEN <<"ling">> ELSE <<>>) \o units[(j % 4) + 1]
        ELSE <<>>)
       \o (IF j % 4 = 0 /\ GroupNonzero(v, j \div 4)
           THEN bigUnits[(j \div 4) + 1] ELSE <<>>)
       \o ZeroAndUnitsFrom(v, j - 1, seen \/ PlaceDigit(v, j) # 0,
                           PlaceDigit(v, j) = 0)

ZeroAndUnits == {"ling", "shi", "bai", "qian", "WAN", "YI"}

\* C8: in the integer numeral exactly one ling stands wherever a nonzero
\* digit is followed by zeros and then a nonzero digit, inside a group (1001)
\* and across a group boundary (10001), and nowhere else.
C8_OneZeroPerGap ==
  (Priced /\ IsInteger(val) /\ val.n <= 12)
    => Keep(out.val, ZeroAndUnits) = ZeroAndUnitsFrom(val, val.n - 1, FALSE, FALSE)

Numerals == {upperCaseNums[d + 1] : d \in 1..9}

\* C9: when the integer part has more than one group, a tens digit 1 is
\* written yi shi: no shi stands without a numeral before it.
C9_BareTenOnlyInSingleGroup ==
  (Priced /\ IsInteger(val) /\ val.n > 4 /\ val.n <= 12)
    => \A i \in 1..Len(out.val) :
         out.val[i] = "shi" => (i > 1 /\ out.val[i - 1] \in Numerals)

FractionUnit(fd, i) ==
  IF i <= Len(fd) /\ fd[i] # 0 THEN <<upperCaseNums[fd[i] + 1], decimalUnits[i]>>
  ELSE <<>>

FractionOf(fd) ==
  FractionUnit(fd, 1) \o FractionUnit(fd, 2) \o FractionUnit(fd, 3)
  \o FractionUnit(fd, 4)

\* What follows yuan, or the sign when there is no yuan.
AfterYuan(sq) ==
  IF IndexOf(sq, "yuan") # 0 THEN SubSeq(sq, IndexOf(sq, "yuan") + 1, Len(sq))
  ELSE Without(sq, "fu")

\* C10: the fractional numeral is the numeral and unit (jiao, fen, li, hao)
\* of each nonzero digit among the first four fractional digits, in order;
\* zeros are skipped and later digits have no influence.  Where there is no
\* such digit, nothing but the suffix can follow yuan.
C10_FractionFromFirstFourDigits ==
  (Priced /\ val.ds # <<>>)
    => IF FractionOf(FracDigits(val)) # <<>>
       THEN AfterYuan(out.val) = FractionOf(FracDigits(val))
       ELSE AfterYuan(out.val) \in {<<>>, format}

\* The amount with the sign taken off.
Positive(v) == [v EXCEPT !.neg = FALSE]

\* What the version f returns for the amount v.
ResultOn(f, v, fmt, b) ==
  IF f = "priceUppercaseFixed" THEN priceUppercaseFixed(v)
  ELSE priceUppercase(v, fmt, b)

\* C11: for every amount x > 0 and every suffix, the string returned for -x
\* is fu followed by the string returned for x.
C11_SignIsOnlyThePrefix ==
  (Priced /\ val.kind = "finite" /\ val.ds # <<>> /\ val.neg)
    => out.val = <<"fu">> \o ResultOn(fn, Positive(val), format, build).val

C11_Witness ==
  /\ Priced
  /\ val = A(TRUE, <<1, 2>>, 1)
  /\ out.val = <<"fu", "yi", "yuan", "er", "jiao">>

PriceCall == pc = "done" /\ fn \in {"priceUppercase", "priceUppercaseFixed"}

\* C12: priceUppercase never raises: for every finite amount and every
\* suffix it returns a string.
C12_NeverRaises == (PriceCall /\ val.kind = "finite") => out.kind = "value"

\* C13: given NaN (what a non-numeric amount is after Math.abs),
\* priceUppercase returns the empty string and raises nothing.
C13_NaNGivesEmptyString == (PriceCall /\ val.kind = "NaN") => out = Value(<<>>)

\* ------------------------------------------------ claims, numberToChinese

Translated == pc = "done" /\ fn = "numberToChinese"

\* The string form of the argument does not parse as a number.
Unparsable(x) ==
  \/ x = NotANumber
  \/ (x.kind = "string"
      /\ (x.chars = <<>> \/ StringToNumber(x.chars).kind = "NaN"))

\* C14: numberToChinese, given an argument whose string form does not parse
\* as a number (NaN, a string that is not numeric, the empty string), returns
\* the empty string and raises nothing.
C14_UnparsableGivesEmptyString ==
  (Translated /\ Unparsable(numArg)) => out = Value(<<>>)

C14_Witness ==
  /\ Translated
  /\ numArg = Str(<<"a", "b", "c">>)
  /\ out = Value(<<>>)

\* The argument is a whole number other than zero, of at most k digits.
IsWhole(x, k) ==
  x.kind = "finite" /\ x.ds # <<>> /\ Len(x.ds) <= x.n /\ x.n <= k

\* The text has a 'ten' that no digit precedes.
BareTen(text) ==
  \E i \in 1..Len(text) :
    /\ text[i] = "ten"
    /\ (i = 1 \/ text[i - 1] \notin {chineseDigits[d + 1] : d \in 1..9})

ChinesePlace(x, p) ==
  IF x.n - p >= 1 /\ x.n - p <= Len(x.ds) THEN x.ds[x.n - p] ELSE 0

\* The segment g (0 for the lowest) of x has a nonzero digit.
SegmentNonzero(x, g) == \E p \in (4 * g)..(4 * g + 3) : ChinesePlace(x, p) # 0

\* A nonzero digit more significant than the place p.
NonzeroAbove(x, p) == \E q \in (p + 1)..11 : ChinesePlace(x, q) # 0

PlaceUnit(p) == chineseUnits[(p % 4) + 1]

\* What the place p of x contributes: nothing for a zero; for a nonzero digit
\* a 'ling' if zeros were skipped after a nonzero digit, the digit (but for
\* the bare ten) and the unit of the place.
PlaceText(x, p) ==
  IF ChinesePlace(x, p) = 0 THEN <<>>
  ELSE (IF ChinesePlace(x, p + 1) = 0 /\ NonzeroAbove(x, p)
        THEN <<"ling">> ELSE <<>>)
       \o (IF p = 1 /\ x.n = 2 /\ ChinesePlace(x, p) = 1 THEN <<>>
           ELSE <<chineseDigits[ChinesePlace(x, p) + 1]>>)
       \o PlaceUnit(p)

SegmentUnitText(x, g) ==
  IF ~SegmentNonzero(x, g) THEN <<>>
  ELSE IF g = 1 THEN <<"WAN">> ELSE IF g = 2 THEN <<"YI">> ELSE <<>>

SegmentRendered(x, g) ==
  PlaceText(x, 4 * g + 3) \o PlaceText(x, 4 * g + 2) \o PlaceText(x, 4 * g + 1)
  \o PlaceText(x, 4 * g) \o SegmentUnitText(x, g)

Rendered(x) == SegmentRendered(x, 2) \o SegmentRendered(x, 1) \o SegmentRendered(x, 0)

\* The text without the 'one' of every 'one ten': C15 is about that digit.
RECURSIVE TenAlone(_)
TenAlone(text) ==
  IF text = <<>> THEN <<>>
  ELSE IF Len(text) >= 2 /\ text[1] = "one" /\ text[2] = "ten"
  THEN TenAlone(Tail(text))
  ELSE <<Head(text)>> \o TenAlone(Tail(text))

NoDoubleLing(text) ==
  \A i \in 1..(Len(text) - 1) : ~(text[i] = "ling" /\ text[i + 1] = "ling")

\* C16: for 1 <= n < 10^12 every nonzero segment of four digits is written
\* with thousand, hundred, ten and the unit of the segment, an all-zero
\* segment with nothing, with exactly one 'ling' wherever a nonzero digit
\* follows skipped zeros that follow a more significant nonzero digit; the
\* text never has two 'ling' in a row and never ends in 'ling'.  Whether a
\* tens digit 1 has its 'one' is left to C15.
C16_SegmentsAndOneZeroPerGap ==
  (Translated /\ IsWhole(numArg, 12) /\ ~numArg.neg)
    => /\ TenAlone(out.val) = TenAlone(Rendered(numArg))
       /\ NoDoubleLing(out.val)
       /\ out.val[Len(out.val)] # "ling"

\* --------------------------------------------------- claims, coordtransform

\* x < y, by the sign of the difference.
Under(x, y) == FxSub(x, y).neg

\* The point is strictly inside the box 73.66 .. 135.05, 3.86 .. 53.55.
StrictlyInside(p) ==
  /\ Under(Num(73, 6600, 0, 0), p[1])
  /\ Under(p[1], Num(135, 500, 0, 0))
  /\ Under(Num(3, 8600, 0, 0), p[2])
  /\ Under(p[2], Num(53, 5500, 0, 0))

\* The point is on an edge of the box.
OnEdge(p) ==
  \/ p[1] \in {Num(73, 6600, 0, 0), Num(135, 500, 0, 0)}
  \/ p[2] \in {Num(3, 8600, 0, 0), Num(53, 5500, 0, 0)}

Beijing == <<Num(116, 3971, 2800, 0), Num(39, 9165, 2700, 0)>>

\* C17: out_of_china(lng, lat) is false exactly when 73.66 < lng < 135.05
\* and 3.86 < lat < 53.55, all four comparisons strict: it is true of every
\* point on an edge of the box, true of (0, 0) and false of
\* (116.397128, 39.916527).
C17_OutOfChinaIsOutsideOpenBox ==
  Returned("out_of_china") =>
    /\ out.val = ~StrictlyInside(point)
    /\ OnEdge(point) => out.val
    /\ point = <<Zero, Zero>> => out.val
    /\ point = Beijing => ~out.val

\* out_of_china has returned true of a point of the edge lng = 73.66 whose
\* latitude is inside.
C17_Witness ==
  /\ Returned("out_of_china")
  /\ point = <<Num(73, 6600, 0, 0), Num(39, 9165, 2700, 0)>>
  /\ out.val

\* C18: of a point out_of_china is true of, wgs84togcj02 and gcj02towgs84
\* return the point itself, by the first return statement; of a point
\* out_of_china is false of, both return by the second, the formula's.
C18_IdentityOutsideFormulaInside ==
  \A f \in {"wgs84togcj02", "gcj02towgs84"} :
    Returned(f) =>
      IF out_of_china(point[1], point[2])
      THEN out.val = [via |-> "identity", lng |-> point[1], lat |-> point[2]]
      ELSE out.val.via = "formula" /\ <<out.val.lng, out.val.lat>> # point

\* wgs84togcj02 has returned a point of the edge lat = 53.55 as it was.
C18_Witness ==
  /\ Returned("wgs84togcj02")
  /\ point = <<Num(116, 3971, 2800, 0), Num(53, 5500, 0, 0)>>
  /\ out.val.via = "identity"
  /\ out.val.lat = Num(53, 5500, 0, 0)

\* C19: inside the box, gcj02towgs84(p) is 2 * p - wgs84togcj02(p), in the
\* longitude and in the latitude.
C19_Gcj02ToWgs84MirrorsWgs84ToGcj02 ==
  Returned("gcj02towgs84") /\ ~out_of_china(point[1], point[2]) =>
    \A forward \in {wgs84togcj02(point[1], point[2])} :
      /\ out.val.lng = FxSub(FxMulSmall(point[1], 2), forward.lng)
      /\ out.val.lat = FxSub(FxMulSmall(point[2], 2), forward.lat)

\* gcj02towgs84 has returned of (116.397128, 39.916527), by the formula, a
\* point west of it.
C19_Witness ==
  /\ Returned("gcj02towgs84")
  /\ point = Beijing
  /\ out.val.via = "formula"
  /\ Under(out.val.lng, point[1])

\* gcj02tobd09 has returned of the point bd09togcj02 returned of a point
\* inside the box.
ThereAndBack ==
  /\ Returned("gcj02tobd09")
  /\ origin # <<>>
  /\ origin[1].fn = "bd09togcj02"
  /\ ~out_of_china(origin[1].point[1], origin[1].point[2])

\* x and y differ by t at most.
Within(x, y, t) == ~Under(t, FxAbs(FxSub(x, y)))

\* 0.000000001: what separates two coordinates that differ by the rounding
\* of the floating-point operations only, with room to spare.
FloatTolerance == Num(0, 0, 0, 1000)

\* 0.00001 of a degree
RoundTripTolerance == Num(0, 0, 1000, 0)

\* C20, as the specification has it: inside China
\* gcj02tobd09(bd09togcj02(lng, lat)) is (lng, lat) within floating-point
\* tolerance.
C20_RoundTripWithinFloatTolerance ==
  ThereAndBack =>
    /\ Within(out.val.lng, origin[1].point[1], FloatTolerance)
    /\ Within(out.val.lat, origin[1].point[2], FloatTolerance)

\* C20, amended: inside China gcj02tobd09(bd09togcj02(lng, lat)) is
\* (lng, lat) within 0.00001 of a degree in the longitude and in the
\* latitude.
C20_RoundTripWithinHundredThousandth ==
  ThereAndBack =>
    /\ Within(out.val.lng, origin[1].point[1], RoundTripTolerance)
    /\ Within(out.val.lat, origin[1].point[2], RoundTripTolerance)

\* The round trip of (116.397128, 39.916527) is done, and its latitude is
\* off by more than 0.000001.
C20_Witness ==
  /\ ThereAndBack
  /\ origin[1].point = Beijing
  /\ ~Within(out.val.lat, origin[1].point[2], Num(0, 0, 100, 0))

\* C26: bd09togcj02 and gcj02tobd09 do not test out_of_china: of every
\* point, those out_of_china is true of included, they return by the
\* formula, and never the point they were given.
C26_Bd09ConversionsNeverShortCircuit ==
  \A f \in {"bd09togcj02", "gcj02tobd09"} :
    Returned(f) =>
      /\ out.val.via = "formula"
      /\ <<out.val.lng, out.val.lat>> # point

\* bd09togcj02 has returned of (0, 0), a point out_of_china is true of, a
\* point south-west of it.
C26_Witness ==
  /\ Returned("bd09togcj02")
  /\ point = <<Zero, Zero>>
  /\ out_of_china(point[1], point[2])
  /\ out.val.lng.neg
  /\ out.val.lat.neg

\* ------------------------------------------------ claims, deviceDetection
\* C21: deviceDetection returns exactly one of isPC, isMobile, isTablet as
\* true, the one that type names; a user agent that matches both the tablet
\* and the mobile pattern (iPad) is a tablet; and isMobileDevice is the
\* negation of isPCDevice on every user agent.
C21_OneClassNamedByType ==
  /\ Returned("deviceDetection") =>
       /\ Cardinality({f \in {"isPC", "isMobile", "isTablet"} : out.val[f]}) = 1
       /\ out.val.isPC = (out.val.type = "pc")
       /\ out.val.isMobile = (out.val.type = "mobile")
       /\ out.val.isTablet = (out.val.type = "tablet")
       /\ tabletRegex(out.val.userAgent.chars)
            /\ mobileRegex(out.val.userAgent.chars) => out.val.isTablet
       /\ Occurs(iPad, out.val.userAgent.chars) => out.val.isTablet
  /\ Returned("isMobileDevice") => out.val = ~isPCDevice(userAgent, navigator)
  /\ Returned("isPCDevice") => out.val = ~isMobileDevice(userAgent, navigator)

C21_Witness ==
  /\ Returned("deviceDetection")
  /\ Occurs(iPad, out.val.userAgent.chars)
  /\ mobileRegex(out.val.userAgent.chars)
  /\ out.val.isTablet

\* ----------------------------------------------- claims, priceToThousands
DigitAsked == optionOf(options, "digit", 0)

RoundAsked == optionOf(options, "round", FALSE)

\* The amount x with d fractional digits: those beyond the d-th dropped
\* (up = 0) or the d-th raised by one (up = 1), and the commas.
TextOf(x, d, up) ==
  commaParts(SplitDot((IF x.m < 0 THEN <<"-">> ELSE <<>>)
                      \o (IF x.p <= d THEN fixedChars(Abs(x.m), x.p, d)
                          ELSE fixedChars((Abs(x.m) \div Pow10(x.p - d)) + up,
                                          d, d))))

\* The amount x rounded to d fractional digits, a tie to either side.
RoundedTexts(x, d) ==
  {TextOf(x, d, up) :
     up \in {k \in {0, 1} :
               \/ x.p <= d
               \/ k = 0 /\ 2 * (Abs(x.m) % Pow10(x.p - d)) <= Pow10(x.p - d)
               \/ k = 1 /\ 2 * (Abs(x.m) % Pow10(x.p - d)) >= Pow10(x.p - d)}}

\* The text without the sign of a zero.
ZeroUnsigned(text) ==
  IF text[1] = "-" /\ \A i \in 2..Len(text) : text[i] \in {"0", "."}
  THEN Tail(text) ELSE text

\* C22: with round absent or false priceToThousands(amount, { digit: d })
\* drops the fractional digits beyond the d-th without rounding; only
\* round: true rounds the d-th digit.
C22_TruncatesUnlessRound ==
  Returned("priceToThousands") /\ DigitAsked >= 0 =>
    IF RoundAsked
    THEN ZeroUnsigned(out.val)
         \in {ZeroUnsigned(text) : text \in RoundedTexts(amount, DigitAsked)}
    ELSE out.val = TextOf(amount, DigitAsked, 0)

\* --------------------------------------------------- claims, randomDivide
\* C23: for integers total > 0 and parts > 0, whatever the options and the
\* random choices, an array that randomDivide returns and that is not empty
\* has exactly parts entries and their sum is total.
C23_PartsSumToTotal ==
  Returned("randomDivide") /\ total > 0 /\ numParts > 0 /\ out.val # <<>> =>
    Len(out.val) = numParts /\ SumOf(out.val) = total

\* ----------------------------------------------- claims, getDecimalPlaces
\* A number that Number::toString writes in exponential notation with a
\* negative exponent.
IsExponential(s) == s.ds # <<>> /\ s.n <= -6

\* The exponent k of mantissa e-k and the fractional digits of the mantissa.
ExponentialPlaces(s) == (1 - s.n) + (Len(s.ds) - 1)

\* C24: for an operand that prints in exponential notation (mantissa e-k)
\* the fractional-digit count used by addition, subtraction, multiplication
\* and divisionOperation is k plus the fractional digits of the mantissa,
\* the count that makes operand * 10^count an integer.
C24_PlacesDecodeExponent ==
  pc = "done"
  /\ fn \in {"addition", "subtraction", "multiplication", "divisionOperation"} =>
    \A x \in {num1, num2} :
      IsExponential(Sci(x)) =>
        /\ ExponentialPlaces(Sci(x)) = x.p
        /\ getDecimalPlaces(x) = ExponentialPlaces(Sci(x))

\* ------------------------------ claims, banMouseEvent and allowMouseEvent
ListenersOf(ls, type) == {l \in ls : l[1] = type}

\* C27: with the document available, after any sequence of banMouseEvent and
\* allowMouseEvent calls the document carries, for each event type, at most
\* one capture listener of the module, and the registry has an entry for the
\* type exactly when a listener is attached, the entry being that listener.
C27_OneListenerPerTypeInRegistry ==
  document = "document" =>
    \A t \in EventTypes :
      /\ Cardinality(ListenersOf(listeners, t)) <= 1
      /\ (eventHandlers[t] # <<>>) = (ListenersOf(listeners, t) # {})
      /\ eventHandlers[t] # <<>> => <<t, eventHandlers[t][1]>> \in listeners

C27_Witness ==
  /\ pc = "done" /\ fn = "banMouseEvent" /\ document = "document"
  /\ created["contextmenu"] = 2
  /\ eventList = Arr(<<"contextmenu", "contextmenu">>)
  /\ listeners = {<<"contextmenu", [type |-> "contextmenu", serial |-> 2]>>}

ItemsOf(list) ==
  IF list.kind = "array" THEN {list.items[i] : i \in 1..Len(list.items)} ELSE {}

\* C28: when allowMouseEvent(L) has returned no listener of the module is
\* attached and no entry is kept for a type of L, however often the type was
\* banned; its steps
\* leave the listeners and the entries of the types outside L as they are;
\* and a type that is not banned, an empty list or no array change nothing.
C28_AllowReversesBans ==
  [][/\ pc' = "done" /\ fn' = "allowMouseEvent" /\ document = "document" =>
          \A t \in ItemsOf(eventList') :
            ListenersOf(listeners', t) = {} /\ eventHandlers'[t] = <<>>
     /\ fn' = "allowMouseEvent" =>
          \A t \in EventTypes \ ItemsOf(eventList') :
            /\ ListenersOf(listeners', t) = ListenersOf(listeners, t)
            /\ eventHandlers'[t] = eventHandlers[t]
     /\ fn' = "allowMouseEvent" =>
          \A t \in EventTypes :
            eventHandlers[t] = <<>> =>
              /\ ListenersOf(listeners', t) = ListenersOf(listeners, t)
              /\ eventHandlers'[t] = <<>>
     /\ fn' = "allowMouseEvent" /\ noList(eventList') =>
          listeners' = listeners /\ eventHandlers' = eventHandlers]_vars

C28_Witness ==
  /\ pc = "done" /\ fn = "allowMouseEvent" /\ document = "document"
  /\ eventList = Arr(<<"contextmenu">>)
  /\ created["contextmenu"] = 2 /\ created["copy"] = 1
  /\ ListenersOf(listeners, "contextmenu") = {}
  /\ eventHandlers["contextmenu"] = <<>>
  /\ listeners = {<<"copy", [type |-> "copy", serial |-> 1]>>}

\* ------------------------------------------ claims, createStorage
\* JSON.parse(JSON.stringify(v)), undefined where there is none.
RoundTrip(v) ==
  IF JSONstringify(v).kind # "string" THEN Undefined
  ELSE parsedOrUndefined(JSONparse(JSONstringify(v).chars))

\* C29: over an available storage getItem(k) returns the JSON round trip of
\* the value most recently set for k that was not removed or cleared since,
\* and undefined otherwise; without a window it returns undefined.  Stated
\* on the steps: after setItem(k, v) getItem(k) is the round trip of v, after
\* removeItem(k) and clear it is undefined, every other key keeps what
\* getItem returns for it, and getItem returns that value.
C29_GetItemReturnsLastSet ==
  [][/\ window = "undefined" =>
          \A k \in StorageKeys : getItem(window, localStorage', k) = Undefined
     /\ window = "window" /\ fn' = "setItem" =>
          getItem(window, localStorage', itemKey'[1]) = RoundTrip(itemValue'[1])
     /\ window = "window" /\ fn' = "removeItem" =>
          getItem(window, localStorage', itemKey'[1]) = Undefined
     /\ window = "window" /\ fn' = "clear" =>
          \A k \in StorageKeys : getItem(window, localStorage', k) = Undefined
     /\ fn' \in {"setItem", "removeItem", "getItem"} =>
          \A k \in StorageKeys \ {itemKey'[1]} :
            getItem(window, localStorage', k) = getItem(window, localStorage, k)
     /\ fn' = "getItem" =>
          /\ localStorage' = localStorage
          /\ out' = Value(getItem(window, localStorage, itemKey'[1]))]_vars

\* ------------------------------------------ claims, priceUppercase, ling
\* The integer numeral of the result: what stands before yuan, the sign
\* taken off.
IntegerNumeral(sq) ==
  IF IndexOf(sq, "yuan") = 0 THEN <<>>
  ELSE Without(SubSeq(sq, 1, IndexOf(sq, "yuan") - 1), "fu")

NoLingTwice(sq) == \A i \in 1..(Len(sq) - 1) : ~(sq[i] = "ling" /\ sq[i + 1] = "ling")

LingInside(sq) == sq = <<>> \/ (sq[1] # "ling" /\ sq[Len(sq)] # "ling")

\* C25: for every finite nonzero amount the result of priceUppercase has no
\* two ling in a row, and its integer numeral neither begins nor ends with
\* ling.
C25_NoLingTwiceNorAtTheEnds ==
  (Priced /\ val.kind = "finite" /\ val.ds # <<>>)
    => NoLingTwice(out.val) /\ LingInside(IntegerNumeral(out.val))

C25_Witness ==
  /\ Priced
  /\ val = A(FALSE, <<1, 0, 1, 0, 0, 1>>, 9)
  /\ format = <<"zheng">>
  /\ out.val = <<"yi", "YI", "yi", "bai", "WAN", "ling", "yi", "qian", "yuan", "zheng">>

\* ------------------------------------- claims, numberToChinese, termination
\* C30: numberToChinese terminates and returns a string for every argument,
\* the infinities included: the loop that splits the segments reaches the
\* value 0 and the call returns.
C30_LoopReachesZero == <>(pc = "done" /\ out.kind = "value")

====
